---- MODULE Spec2Model ----
(***************************************************************************)
(* A model of the org-mode movie catalogue scripts: the Title Normalizer   *)
(* (parse_org_title), the Match Scorer (calculate_match_score,             *)
(* find_best_match), the enrichment run (enrich_org_tmdb.process_org_file) *)
(* and the duplicate-key cleanup (deduplicate_properties).                 *)
(*                                                                         *)
(* A string is a sequence of characters; a character is a one-token        *)
(* string.  The acute accent U+00B4 is the token "acute".  A number with   *)
(* a fraction (a similarity, a score) is an exact rational <<num, den>>    *)
(* with den > 0, and a flag telling a Python int from a float.             *)
(***************************************************************************)
EXTENDS Integers, Sequences, FiniteSets, TLC

VARIABLES
    fn,            \* the pure function being applied ("none" in the run specifications)
    arg,           \* its input
    ret,           \* its result: [done |-> FALSE] before the call
    pc,            \* position of process_org_file
    disk,          \* the files: org (canonical path), tmp (.org.tmp), bak (.org.bak)
    lines,         \* process_org_file: the lines read at the start of the run
    output_lines,  \* process_org_file: the output built so far
    i,             \* process_org_file: index of the next input line (0-based, as in the code)
    cur,           \* process_org_file: the record being processed
    api,           \* the lookup service: what the next calls will answer
    log            \* what the run did, in order: prints, external calls, sleeps, writes

vars == <<fn, arg, ret, pc, disk, lines, output_lines, i, cur, api, log>>

\* Python's None, for a value that is otherwise a string, an integer, a record
None == "None"
NoneStr == <<None>>
NoneInt == 0 - 1

(***************************************************************************)
(* Characters and Python's str methods.                                    *)
(***************************************************************************)
Acute == "acute"
NL == "\n"
Space == {" ", "\t", NL}
Digits == <<"0", "1", "2", "3", "4", "5", "6", "7", "8", "9">>
Uppers == <<"A", "B", "C", "D", "E", "F", "G", "H", "I", "J", "K", "L", "M", "N", "O", "P", "Q", "R", "S", "T", "U", "V", "W", "X", "Y", "Z">>
Lowers == <<"a", "b", "c", "d", "e", "f", "g", "h", "i", "j", "k", "l", "m", "n", "o", "p", "q", "r", "s", "t", "u", "v", "w", "x", "y", "z">>

Range(s) == {s[k] : k \in DOMAIN s}
IsSpace(c) == c \in Space
DigitSet == Range(Digits)
UpperSet == Range(Uppers)
WordSet == Range(Digits) \cup Range(Uppers) \cup Range(Lowers) \cup {"_"}
IsDigit(c) == c \in DigitSet
DigitVal(c) == (CHOOSE k \in DOMAIN Digits : Digits[k] = c) - 1
\* \w of the re module
IsWord(c) == c \in WordSet

\* str.lower, one character
LowerChar(c) == IF c \in UpperSet THEN Lowers[CHOOSE k \in DOMAIN Uppers : Uppers[k] = c] ELSE c
\* str.lower
Lower(s) == [k \in DOMAIN s |-> LowerChar(s[k])]

Drop(s, n) == SubSeq(s, n + 1, Len(s))
Take(s, n) == SubSeq(s, 1, n)

RECURSIVE LStrip(_)
LStrip(s) == IF s # <<>> /\ IsSpace(s[1]) THEN LStrip(Tail(s)) ELSE s
RECURSIVE RStrip(_)
RStrip(s) == IF s # <<>> /\ IsSpace(s[Len(s)]) THEN RStrip(Take(s, Len(s) - 1)) ELSE s
\* str.strip
Strip(s) == RStrip(LStrip(s))
\* str.startswith
StartsWith(s, p) == Len(s) >= Len(p) /\ Take(s, Len(p)) = p
\* str.endswith
EndsWith(s, p) == Len(s) >= Len(p) /\ Drop(s, Len(s) - Len(p)) = p

RECURSIVE Concat(_)
Concat(ss) == IF ss = <<>> THEN <<>> ELSE Head(ss) \o Concat(Tail(ss))

\* int(str) of a run of decimal digits
RECURSIVE ParseInt(_)
ParseInt(s) == IF s = <<>> THEN 0 ELSE 10 * ParseInt(Take(s, Len(s) - 1)) + DigitVal(s[Len(s)])
\* str(int) of a natural number
RECURSIVE FormatNat(_)
FormatNat(n) == IF n < 10 THEN <<Digits[n + 1]>> ELSE FormatNat(n \div 10) \o <<Digits[(n % 10) + 1]>>

(***************************************************************************)
(* Title Normalizer: parse_org_title (enrich_org_tmdb) and parse_org_entry *)
(* (match_movies) are the same code.                                       *)
(***************************************************************************)
\* re.match(r'^\*\s+(.+)$', s): group(1), or None when s does not match
HeadingGroup(s) == IF Len(s) >= 3 /\ s[1] = "*" /\ IsSpace(s[2]) /\ NL \notin Range(LStrip(Tail(s))) /\ LStrip(Tail(s)) # <<>> THEN LStrip(Tail(s)) ELSE NoneStr

\* re.search(r"[´']?(\d{4})", t): group(1) of the leftmost match, or None
FirstFourDigits(t) == LET starts == {k \in 1..(Len(t) - 3) : \A m \in 0..3 : IsDigit(t[k + m])} IN IF starts = {} THEN NoneStr ELSE LET k == CHOOSE x \in starts : \A y \in starts : x <= y IN SubSeq(t, k, k + 3)

YearLow == 1920
YearHigh == 2025

\* the year hint of a heading's text
YearOf(t) == LET m == FirstFourDigits(t) IN IF m = NoneStr THEN NoneInt ELSE IF YearLow <= ParseInt(m) /\ ParseInt(m) <= YearHigh THEN ParseInt(m) ELSE NoneInt

\* re.sub(r'\([^)]*\)', '', t)
RECURSIVE RemoveParens(_)
RemoveParens(t) == IF t = <<>> THEN <<>> ELSE IF t[1] = "(" /\ \E k \in 2..Len(t) : t[k] = ")" THEN RemoveParens(Drop(t, CHOOSE k \in 2..Len(t) : t[k] = ")" /\ \A m \in 2..(k - 1) : t[m] # ")")) ELSE <<t[1]>> \o RemoveParens(Tail(t))

\* re.sub(r"[´']", '', t)
RemoveQuotes(t) == SelectSeq(t, LAMBDA c : c \notin {Acute, "'"})

\* re.sub(r'[_/]\s*$', '', t)
RemoveTrailingDecoration(t) == LET r == RStrip(t) IN IF r # <<>> /\ r[Len(r)] \in {"_", "/"} THEN Take(r, Len(r) - 1) ELSE t

\* re.sub(r'\s+', ' ', t)
RECURSIVE CollapseSpaces(_)
CollapseSpaces(t) == IF t = <<>> THEN <<>> ELSE IF IsSpace(t[1]) THEN <<" ">> \o CollapseSpaces(LStrip(t)) ELSE <<t[1]>> \o CollapseSpaces(Tail(t))

CleanTitle(full_title) == Strip(CollapseSpaces(RemoveTrailingDecoration(RemoveQuotes(Strip(RemoveParens(full_title))))))

\* if not match: return None
heading_matches(line) == HeadingGroup(Strip(line)) # NoneStr
\* parse_org_title(line): (full_title, cleaned, year); matched is FALSE where the code returns None
parse_org_title(line) == LET g == HeadingGroup(Strip(line)) IN IF g = NoneStr THEN [matched |-> FALSE, full_title |-> NoneStr, cleaned |-> NoneStr, year |-> NoneInt] ELSE [matched |-> TRUE, full_title |-> Strip(g), cleaned |-> CleanTitle(Strip(g)), year |-> YearOf(Strip(g))]

(***************************************************************************)
(* Numbers.  A score is [num, den, int]: the exact value num/den, and      *)
(* whether Python holds it as an int (min(100, x) returns the int 100).    *)
(***************************************************************************)
PyFloat(n, d) == [num |-> n, den |-> d, int |-> FALSE]
PyInt(n) == [num |-> n, den |-> 1, int |-> TRUE]
Le(a, b) == a.num * b.den <= b.num * a.den
Lt(a, b) == a.num * b.den < b.num * a.den
Eq(a, b) == a.num * b.den = b.num * a.den
\* max(a, b) and min(a, b) return the first argument when the two are equal
PyMax(a, b) == IF Lt(a, b) THEN b ELSE a
PyMin(a, b) == IF Lt(b, a) THEN b ELSE a
\* float + int
Plus(a, k) == [num |-> a.num + k * a.den, den |-> a.den, int |-> a.int]

\* round(x, 2), in hundredths: an int stays an int; a float goes to the nearest
\* hundredth (an exact half, which no similarity within the bounds yields, to even)
Round2(x) == IF x.int THEN [hund |-> 100 * x.num, int |-> TRUE] ELSE LET q == (100 * x.num) \div x.den  r == (100 * x.num) % x.den IN [hund |-> IF 2 * r > x.den \/ (2 * r = x.den /\ q % 2 = 1) THEN q + 1 ELSE q, int |-> FALSE]
\* the confidence as a score again
OfConfidence(c) == IF c.int THEN PyInt(c.hund \div 100) ELSE PyFloat(c.hund, 100)
\* str() of a confidence: 100, 85.0, 71.5, 71.54
FormatConfidence(c) == IF c.int THEN FormatNat(c.hund \div 100) ELSE FormatNat(c.hund \div 100) \o <<".">> \o (IF c.hund % 10 = 0 THEN FormatNat((c.hund % 100) \div 10) ELSE <<Digits[((c.hund % 100) \div 10) + 1], Digits[(c.hund % 10) + 1]>>)

(***************************************************************************)
(* Match Scorer.                                                           *)
(***************************************************************************)
HIGH_CONFIDENCE_THRESHOLD == 85
MEDIUM_CONFIDENCE_THRESHOLD == 70
YearBonusExact == 10
YearBonusNear == 5
TopN == 10

\* the length of the longest common subsequence, which rapidfuzz's Indel distance is
\* built on, row by row: row k holds the LCS of a[1..k] with each prefix of b
RECURSIVE FillRow(_, _, _, _)
FillRow(prev, ch, b, row) == IF Len(row) = Len(b) + 1 THEN row ELSE LET j == Len(row) IN FillRow(prev, ch, b, Append(row, IF b[j] = ch THEN prev[j] + 1 ELSE IF prev[j + 1] >= row[j] THEN prev[j + 1] ELSE row[j]))
RECURSIVE LcsRow(_, _, _)
LcsRow(a, b, k) == IF k = 0 THEN [j \in 1..(Len(b) + 1) |-> 0] ELSE FillRow(LcsRow(a, b, k - 1), a[k], b, <<0>>)
LCS(a, b) == LcsRow(a, b, Len(a))[Len(b) + 1]

\* the similarity of two strings whose lengths add up to lensum and whose Indel
\* distance is dist: 100 * (1 - dist / lensum)
Similarity(lensum, dist) == IF lensum = 0 THEN PyFloat(100, 1) ELSE PyFloat(100 * (lensum - dist), lensum)

\* rapidfuzz.fuzz.ratio(a, b)
fuzz_ratio(a, b) == Similarity(Len(a) + Len(b), Len(a) + Len(b) - 2 * LCS(a, b))

\* Python's truth value of Optional[int] and of Optional[str]
TruthyInt(n) == n # NoneInt /\ n # 0
TruthyStr(t) == t # NoneStr /\ t # <<>>

\* tmdb_year.split('-')[0]
RECURSIVE BeforeDash(_)
BeforeDash(t) == IF t = <<>> \/ t[1] = "-" THEN <<>> ELSE <<t[1]>> \o BeforeDash(Tail(t))

Abs(n) == IF n < 0 THEN 0 - n ELSE n

\* the score without the cap at 100
score_from_ratios_uncapped(score_title, score_original, year_hint, tmdb_year) == LET base_score == PyMax(score_title, score_original) IN IF TruthyInt(year_hint) /\ TruthyStr(tmdb_year) THEN LET tmdb_year_int == ParseInt(BeforeDash(tmdb_year)) IN IF tmdb_year_int = year_hint THEN Plus(base_score, YearBonusExact) ELSE IF Abs(tmdb_year_int - year_hint) <= 1 THEN Plus(base_score, YearBonusNear) ELSE base_score ELSE base_score
\* calculate_match_score from the two title similarities on
score_from_ratios(score_title, score_original, year_hint, tmdb_year) == LET base_score == PyMax(score_title, score_original) IN IF TruthyInt(year_hint) /\ TruthyStr(tmdb_year) THEN LET tmdb_year_int == ParseInt(BeforeDash(tmdb_year)) IN IF tmdb_year_int = year_hint THEN PyMin(PyInt(100), Plus(base_score, YearBonusExact)) ELSE IF Abs(tmdb_year_int - year_hint) <= 1 THEN PyMin(PyInt(100), Plus(base_score, YearBonusNear)) ELSE base_score ELSE base_score

calculate_match_score(original, tmdb_title, tmdb_original_title, year_hint, tmdb_year) == score_from_ratios(fuzz_ratio(Lower(original), Lower(tmdb_title)), fuzz_ratio(Lower(original), Lower(tmdb_original_title)), year_hint, tmdb_year)

\* list.sort(reverse=True, key=score) is stable: one pass of insertion keeps equal keys in order
RECURSIVE SortDesc(_)
\* an insertion that puts x before the entries of equal score
InsertDesc_unstable(sorted, x) == LET before == {k \in 0..Len(sorted) : \A m \in 1..k : Lt(x[1], sorted[m][1])} IN LET k == CHOOSE n \in before : \A m \in before : m <= n IN Take(sorted, k) \o <<x>> \o Drop(sorted, k)
\* x goes after every entry whose score is not smaller
InsertDesc(sorted, x) == LET before == {k \in 0..Len(sorted) : \A m \in 1..k : Le(x[1], sorted[m][1])} IN LET k == CHOOSE n \in before : \A m \in before : m <= n IN Take(sorted, k) \o <<x>> \o Drop(sorted, k)
SortDesc(scored) == IF scored = <<>> THEN <<>> ELSE InsertDesc(SortDesc(Take(scored, Len(scored) - 1)), scored[Len(scored)])

\* a NO_RESULTS answer that asks for no review
NoResults_unreviewed == [tmdb_id |-> NoneInt, confidence |-> [hund |-> 0, int |-> TRUE], tmdb_title |-> NoneStr, needs_review |-> FALSE, match_status |-> "NO_RESULTS"]
\* the dict returned when results is empty
NoResults == [tmdb_id |-> NoneInt, confidence |-> [hund |-> 0, int |-> TRUE], tmdb_title |-> NoneStr, needs_review |-> TRUE, match_status |-> "NO_RESULTS"]

\* find_best_match from scored_results (the list of (score, result)) on
best_of_scored(scored_results) == LET best == SortDesc(scored_results)[1] IN LET best_score == best[1]  best_result == best[2] IN [tmdb_id |-> best_result.id, confidence |-> Round2(best_score), tmdb_title |-> best_result.title, needs_review |-> Lt(best_score, PyInt(HIGH_CONFIDENCE_THRESHOLD)), match_status |-> IF Le(PyInt(HIGH_CONFIDENCE_THRESHOLD), best_score) THEN "HIGH_CONFIDENCE" ELSE IF Le(PyInt(MEDIUM_CONFIDENCE_THRESHOLD), best_score) THEN "MEDIUM_CONFIDENCE" ELSE "LOW_CONFIDENCE"]

\* results[:10]
FirstTopN(results) == Take(results, IF Len(results) < TopN THEN Len(results) ELSE TopN)

\* the scoring loop of find_best_match over results[:10]
scored_by_titles(query, year_hint, results) == [k \in DOMAIN FirstTopN(results) |-> <<calculate_match_score(query, results[k].title, results[k].original_title, year_hint, results[k].release_date), results[k]>>]
\* the same loop, from the similarities fuzz.ratio gave for each result
scored_by_ratios(year_hint, results) == [k \in DOMAIN FirstTopN(results) |-> <<score_from_ratios(results[k].score_title, results[k].score_original, year_hint, results[k].release_date), results[k]>>]
\* find_best_match once the lookup has returned results
match_of(results, scored_results) == IF results = <<>> THEN NoResults ELSE best_of_scored(scored_results)

(***************************************************************************)
(* The run variables while a pure function is applied, and the            *)
(* function variables during a run.                                        *)
(***************************************************************************)
NoFiles == [org |-> <<>>, tmp |-> <<>>, bak |-> <<>>]
RunIdle == pc = "idle" /\ disk = NoFiles /\ lines = <<>> /\ output_lines = <<>> /\ i = 0 /\ cur = [kind |-> "none"] /\ api = <<>> /\ log = <<>>
RunUnchanged == UNCHANGED <<pc, disk, lines, output_lines, i, cur, api, log>>
NotCalled == [done |-> FALSE]

(***************************************************************************)
(* SpecTitle: parse_org_title applied to heading lines.                    *)
(***************************************************************************)
MaxTokens == 4
Str4(a, b, c, d) == <<Digits[a + 1], Digits[b + 1], Digits[c + 1], Digits[d + 1]>>
HeadingTokens == {<<"F", "i", "l", "m">>, <<" ">>, <<"(">>, <<")">>, <<Acute>>, <<"'">>, <<"_">>, <<"/">>, <<"x">>, Str4(1, 9, 6, 4), Str4(1, 0, 0, 1), Str4(2, 0, 2, 6), Str4(1, 9, 2, 0)}
\* the texts of at most max tokens
HeadingTexts(max) == UNION {{Concat(ts) : ts \in [1..n -> HeadingTokens]} : n \in 0..max}
HeadingLines(max) == {<<"*", " ">> \o t \o <<NL>> : t \in HeadingTexts(max)} \cup {<<"*">> \o t \o <<NL>> : t \in {<<"x">>, <<"*", " ", "x">>, <<"\t", "x", " ">>}}

InitTitle == fn = "parse_org_title" /\ arg \in HeadingLines(MaxTokens) /\ ret = NotCalled /\ RunIdle
CallTitle == fn = "parse_org_title" /\ ~ret.done /\ ret' = [done |-> TRUE, value |-> parse_org_title(arg)] /\ UNCHANGED <<fn, arg>> /\ RunUnchanged
SpecTitle == InitTitle /\ [][CallTitle]_vars

\* the maximal runs of digits of t, as <<first, last>> index pairs
DigitRuns(t) == {p \in (1..Len(t)) \X (1..Len(t)) : p[1] <= p[2] /\ (\A k \in p[1]..p[2] : IsDigit(t[k])) /\ (p[1] = 1 \/ ~IsDigit(t[p[1] - 1])) /\ (p[2] = Len(t) \/ ~IsDigit(t[p[2] + 1]))}
\* the values of the 4-digit tokens of t that lie in [1920, 2025]
PlausibleYears(t) == {ParseInt(SubSeq(t, p[1], p[2])) : p \in {q \in DigitRuns(t) : q[2] - q[1] = 3 /\ ParseInt(SubSeq(t, q[1], q[2])) \in YearLow..YearHigh}}

\* C8: for every accepted heading with a 4-digit token in [1920, 2025] the year
\* hint is such a token's value, whatever other 4-digit tokens the heading holds
C8_YearHintIsThePlausibleToken == (ret.done /\ ret.value.matched /\ PlausibleYears(ret.value.full_title) # {}) => ret.value.year \in PlausibleYears(ret.value.full_title)

\* C9: the cleaned title of an accepted heading is in normal form: no parenthesized
\* segment, no quote-like character, no run of whitespace, no whitespace at either
\* end, no trailing slash or underscore
NormalForm(t) ==
    /\ ~\E a, b \in DOMAIN t : a < b /\ t[a] = "(" /\ t[b] = ")"
    /\ \A k \in DOMAIN t : t[k] \notin {Acute, "'"}
    /\ ~\E k \in 1..(Len(t) - 1) : IsSpace(t[k]) /\ IsSpace(t[k + 1])
    /\ (t # <<>> => ~IsSpace(t[1]) /\ ~IsSpace(t[Len(t)]))
    /\ (t # <<>> => t[Len(t)] \notin {"/", "_"})
C9_CleanedTitleIsNormal == (ret.done /\ ret.value.matched) => NormalForm(ret.value.cleaned)

(***************************************************************************)
(* SpecScore: find_best_match applied to the results of a lookup, each     *)
(* result with the two similarities fuzz.ratio gave for its titles.  The   *)
(* k-th result has id k.                                                   *)
(***************************************************************************)
MaxShort == 2
MaxLong == 12
ReleaseDate(year) == FormatNat(year) \o <<"-", "1", "2", "-", "1", "5">>
Sim0 == Similarity(1, 1)
Sim80 == Similarity(5, 1)
Sim100 == Similarity(1, 0)
\* 0, 61.54, 70, 85, 84.99506..., 95, 100
SimPoints == {Sim0, Similarity(13, 5), Similarity(10, 3), Similarity(20, 3), Similarity(1013, 152), Similarity(20, 1), Sim100}
ReleaseDates == {NoneStr, <<>>, ReleaseDate(1995), ReleaseDate(1994), ReleaseDate(1990)}
YearHints == {NoneInt, 1995}
Rated(st, so, date) == [title |-> <<"T">>, original_title |-> <<"O">>, score_title |-> st, score_original |-> so, release_date |-> date]
RatedResults == {Rated(st, Sim0, date) : st \in SimPoints, date \in ReleaseDates} \cup {Rated(Sim0, Sim80, date) : date \in ReleaseDates}
PlainResults == {Rated(st, Sim0, <<>>) : st \in {Sim0, Similarity(10, 3), Sim100}}
WithIds(rs) == [k \in DOMAIN rs |-> [id |-> k, title |-> rs[k].title, original_title |-> rs[k].original_title, score_title |-> rs[k].score_title, score_original |-> rs[k].score_original, release_date |-> rs[k].release_date]]
\* the lists of at most max results
ShortLists(max) == UNION {[1..n -> RatedResults] : n \in 0..max}
\* the lists of TopN - 1 to max results, all alike but for three of them
LongLists(max) == {[k \in 1..n |-> IF k \in {p[1], p[2]} THEN c[1] ELSE IF k = p[3] THEN c[2] ELSE Rated(Sim0, Sim0, <<>>)] : n \in {m \in (TopN - 1)..max : m > 0}, p \in (1..max) \X (1..max) \X (1..max), c \in PlainResults \X PlainResults}
ScoreInputs(short, long) == {[year_hint |-> y, results |-> WithIds(rs)] : y \in YearHints, rs \in ShortLists(short) \cup LongLists(long)}

InitScore == fn = "find_best_match" /\ arg \in ScoreInputs(MaxShort, MaxLong) /\ ret = NotCalled /\ RunIdle
CallScore == fn = "find_best_match" /\ ~ret.done /\ ret' = [done |-> TRUE, scored |-> scored_by_ratios(arg.year_hint, arg.results), match |-> match_of(arg.results, scored_by_ratios(arg.year_hint, arg.results))] /\ UNCHANGED <<fn, arg>> /\ RunUnchanged
SpecScore == InitScore /\ [][CallScore]_vars

\* C1: for a non-empty candidate list the tier follows from the reported
\* confidence: HIGH iff confidence >= 85, MEDIUM iff 70 <= confidence < 85, LOW
\* iff confidence < 70, and needs_review iff the tier is not HIGH
TierOfConfidence(c) == IF c.hund >= 100 * HIGH_CONFIDENCE_THRESHOLD THEN "HIGH_CONFIDENCE" ELSE IF c.hund >= 100 * MEDIUM_CONFIDENCE_THRESHOLD THEN "MEDIUM_CONFIDENCE" ELSE "LOW_CONFIDENCE"
C1_TierFollowsReportedConfidence == (ret.done /\ arg.results # <<>>) => (ret.match.match_status = TierOfConfidence(ret.match.confidence) /\ ret.match.needs_review = (ret.match.match_status # "HIGH_CONFIDENCE"))

\* C2: every score is min(100, max(similarity to title, similarity to original
\* title) + bonus), bonus 10 for the hinted year, 5 for a year off by one, else 0; it
\* lies in 0..100; with the same bonus a larger similarity never gives a smaller score
BonusOf(year_hint, r) == IF year_hint = NoneInt \/ r.release_date \in {NoneStr, <<>>} THEN 0 ELSE LET y == ParseInt(Take(r.release_date, 4)) IN IF y = year_hint THEN 10 ELSE IF y - year_hint \in {1, 0 - 1} THEN 5 ELSE 0
BestSimilarity(r) == IF Le(r.score_original, r.score_title) THEN r.score_title ELSE r.score_original
ExpectedScore(year_hint, r) == LET x == Plus(BestSimilarity(r), BonusOf(year_hint, r)) IN IF Le(x, PyInt(100)) THEN x ELSE PyInt(100)
C2_ScoreIsCappedSum ==
    ret.done =>
        /\ \A k \in DOMAIN ret.scored : Eq(ret.scored[k][1], ExpectedScore(arg.year_hint, arg.results[k]))
        /\ \A k \in DOMAIN ret.scored : Le(PyInt(0), ret.scored[k][1]) /\ Le(ret.scored[k][1], PyInt(100))
        /\ \A k, m \in DOMAIN ret.scored : (BonusOf(arg.year_hint, arg.results[k]) = BonusOf(arg.year_hint, arg.results[m]) /\ Le(BestSimilarity(arg.results[k]), BestSimilarity(arg.results[m]))) => Le(ret.scored[k][1], ret.scored[m][1])
\* a result whose similarity plus the exact-year bonus passes 100 was scored 100, beside
\* one with the near-year bonus and one without a bonus
C2_Witness == ret.done /\ \E k, m \in DOMAIN ret.scored : BonusOf(arg.year_hint, arg.results[k]) = 10 /\ Lt(PyInt(100), Plus(BestSimilarity(arg.results[k]), 10)) /\ Eq(ret.scored[k][1], PyInt(100)) /\ BonusOf(arg.year_hint, arg.results[m]) = 5 /\ Lt(arg.results[m].score_title, arg.results[m].score_original)

\* C3: the selected candidate is the earliest of the first 10 whose score is the
\* maximum over the first 10; a candidate at position 11 or later is never selected
RankedPositions == {k \in DOMAIN arg.results : k <= 10}
C3_FirstBestOfTopTen ==
    (ret.done /\ arg.results # <<>>) =>
        /\ ret.match.tmdb_id \in RankedPositions
        /\ \A k \in RankedPositions : Le(ExpectedScore(arg.year_hint, arg.results[k]), ExpectedScore(arg.year_hint, arg.results[ret.match.tmdb_id]))
        /\ \A k \in RankedPositions : k < ret.match.tmdb_id => Lt(ExpectedScore(arg.year_hint, arg.results[k]), ExpectedScore(arg.year_hint, arg.results[ret.match.tmdb_id]))
\* two of the first 10 tie for the best score, the later of them in the middle of the
\* list, and a candidate past position 10 would have scored higher
C3_Witness == ret.done /\ Len(arg.results) > 10 /\ (\E k \in RankedPositions : k > ret.match.tmdb_id /\ Eq(ExpectedScore(arg.year_hint, arg.results[k]), ExpectedScore(arg.year_hint, arg.results[ret.match.tmdb_id]))) /\ (\E k \in DOMAIN arg.results : k > 10 /\ Lt(ExpectedScore(arg.year_hint, arg.results[ret.match.tmdb_id]), ExpectedScore(arg.year_hint, arg.results[k])))

(***************************************************************************)
(* enrich_org_tmdb.process_org_file.  Line indices are 0-based as in the   *)
(* code: At(ls, k) is the code's ls[k].                                    *)
(***************************************************************************)
PROPERTIES_MARK == <<":", "P", "R", "O", "P", "E", "R", "T", "I", "E", "S", ":">>
END_MARK == <<":", "E", "N", "D", ":">>
SUGGESTED_SEARCH_PREFIX == <<":", "S", "U", "G", "G", "E", "S", "T", "E", "D", "_", "S", "E", "A", "R", "C", "H", ":">>
KEY_SUGGESTED_SEARCH == <<"S", "U", "G", "G", "E", "S", "T", "E", "D", "_", "S", "E", "A", "R", "C", "H">>
KEY_TMDB_ID == <<"T", "M", "D", "B", "_", "I", "D">>
KEY_AI_VERIFIED == <<"A", "I", "_", "V", "E", "R", "I", "F", "I", "E", "D">>
KEY_NEEDS_REVIEW == <<"N", "E", "E", "D", "S", "_", "R", "E", "V", "I", "E", "W">>
STR_true == <<"t", "r", "u", "e">>
STR_false == <<"f", "a", "l", "s", "e">>
STR_None == <<"N", "o", "n", "e">>
LINE_PROPERTIES == <<":", "P", "R", "O", "P", "E", "R", "T", "I", "E", "S", ":", NL>>
LINE_END == <<":", "E", "N", "D", ":", NL>>
LINE_NEEDS_REVIEW_true == <<":", "N", "E", "E", "D", "S", "_", "R", "E", "V", "I", "E", "W", ":", " ", "t", "r", "u", "e", NL>>
PREFIX_TMDB_ID == <<":", "T", "M", "D", "B", "_", "I", "D", ":", " ">>
PREFIX_TMDB_TITLE == <<":", "T", "M", "D", "B", "_", "T", "I", "T", "L", "E", ":", " ">>
PREFIX_TMDB_CONFIDENCE == <<":", "T", "M", "D", "B", "_", "C", "O", "N", "F", "I", "D", "E", "N", "C", "E", ":", " ">>

At(ls, k) == ls[k + 1]
\* ls[a:b]
Slice(ls, a, b) == SubSeq(ls, a + 1, b)

\* line.strip().startswith('*')
IsStarLine(line) == StartsWith(Strip(line), <<"*">>)
\* the index of the first line at or after k that starts with '*', or len(ls)
NextStar(ls, k) == LET stars == {n \in k..(Len(ls) - 1) : IsStarLine(At(ls, n))} IN IF stars = {} THEN (IF k > Len(ls) THEN k ELSE Len(ls)) ELSE CHOOSE n \in stars : \A m \in stars : n <= m
\* the index of the first line at or after k that is ':END:', or len(ls)
NextEnd(ls, k) == LET ends == {n \in k..(Len(ls) - 1) : Strip(At(ls, n)) = END_MARK} IN IF ends = {} THEN (IF k > Len(ls) THEN k ELSE Len(ls)) ELSE CHOOSE n \in ends : \A m \in ends : n <= m

\* re.match(r'^:(\w+):\s*(.*)$', s): <<group(1), group(2).strip()>>, or <<>> when s does not match
RECURSIVE WordRun(_)
WordRun(s) == IF s # <<>> /\ IsWord(s[1]) THEN <<s[1]>> \o WordRun(Tail(s)) ELSE <<>>
prop_match(s) == IF s = <<>> \/ s[1] # ":" THEN <<>> ELSE LET key == WordRun(Tail(s)) IN LET rest == Drop(s, 1 + Len(key)) IN IF key = <<>> \/ rest = <<>> \/ rest[1] # ":" \/ NL \in Range(LStrip(Tail(rest))) THEN <<>> ELSE <<key, Strip(LStrip(Tail(rest)))>>

\* has_properties
has_properties(ls, k) == k + 1 < Len(ls) /\ Strip(At(ls, k + 1)) = PROPERTIES_MARK
\* the properties dict of the record whose heading is line k, as the list of (key, value) in file order
properties_of(ls, k) == IF has_properties(ls, k) THEN SelectSeq([n \in 1..(NextEnd(ls, k + 2) - (k + 2)) |-> prop_match(Strip(At(ls, k + 1 + n)))], LAMBDA m : m # <<>>) ELSE <<>>
\* key in properties
HasKey(props, key) == \E n \in DOMAIN props : props[n][1] = key
\* properties.get(key): a later assignment to a key replaces the earlier one
GetKey(props, key) == IF HasKey(props, key) THEN props[CHOOSE n \in DOMAIN props : props[n][1] = key /\ \A m \in DOMAIN props : props[m][1] = key => m <= n][2] ELSE NoneStr

\* the AI_VERIFIED gate
is_ai_verified(props) == GetKey(props, KEY_AI_VERIFIED) = STR_true /\ GetKey(props, KEY_NEEDS_REVIEW) = STR_false
\* a TMDB_ID gate that lets records flagged for review through
has_tmdb_id_unless_flagged(props) == HasKey(props, KEY_TMDB_ID) /\ GetKey(props, KEY_NEEDS_REVIEW) # STR_true
\* the TMDB_ID gate
has_tmdb_id(props) == HasKey(props, KEY_TMDB_ID)
\* the query
search_query_of(props, cleaned_title) == IF HasKey(props, KEY_SUGGESTED_SEARCH) THEN GetKey(props, KEY_SUGGESTED_SEARCH) ELSE cleaned_title

\* the added lines with NEEDS_REVIEW written only when nothing was matched
tmdb_lines_unflagged(match_info) == IF TruthyInt(match_info.tmdb_id) THEN <<PREFIX_TMDB_ID \o FormatNat(match_info.tmdb_id) \o <<NL>>, PREFIX_TMDB_TITLE \o (IF match_info.tmdb_title = NoneStr THEN STR_None ELSE match_info.tmdb_title) \o <<NL>>, PREFIX_TMDB_CONFIDENCE \o FormatConfidence(match_info.confidence) \o <<NL>>>> ELSE (IF match_info.needs_review THEN <<LINE_NEEDS_REVIEW_true>> ELSE <<>>)
\* the lines added to a block for match_info
tmdb_lines(match_info) == (IF TruthyInt(match_info.tmdb_id) THEN <<PREFIX_TMDB_ID \o FormatNat(match_info.tmdb_id) \o <<NL>>, PREFIX_TMDB_TITLE \o (IF match_info.tmdb_title = NoneStr THEN STR_None ELSE match_info.tmdb_title) \o <<NL>>, PREFIX_TMDB_CONFIDENCE \o FormatConfidence(match_info.confidence) \o <<NL>>>> ELSE <<>>) \o (IF match_info.needs_review THEN <<LINE_NEEDS_REVIEW_true>> ELSE <<>>)

\* the block's lines with SUGGESTED_SEARCH always kept
kept_props_lines_all(ls, from, to, match_info) == Slice(ls, from, to)
\* the copy of the existing property lines, without SUGGESTED_SEARCH when a match was found
kept_props_lines(ls, from, to, match_info) == SelectSeq(Slice(ls, from, to), LAMBDA l : ~(StartsWith(Strip(l), SUGGESTED_SEARCH_PREFIX) /\ TruthyInt(match_info.tmdb_id)))

\* the output of one processed record whose heading is line k: its lines, and the index after the record
record_with_block(ls, k, match_info) == LET e == NextEnd(ls, k + 2) IN LET after == IF e < Len(ls) THEN e + 1 ELSE e IN [out |-> <<At(ls, k), At(ls, k + 1)>> \o kept_props_lines(ls, k + 2, e, match_info) \o tmdb_lines(match_info) \o (IF e < Len(ls) THEN <<At(ls, e)>> ELSE <<>>) \o Slice(ls, after, NextStar(ls, after)), next |-> NextStar(ls, after)]
record_without_block(ls, k, match_info) == [out |-> <<At(ls, k), LINE_PROPERTIES>> \o tmdb_lines(match_info) \o <<LINE_END>> \o Slice(ls, k + 1, NextStar(ls, k + 1)), next |-> NextStar(ls, k + 1)]
record_output(ls, k, match_info) == IF has_properties(ls, k) THEN record_with_block(ls, k, match_info) ELSE record_without_block(ls, k, match_info)

(***************************************************************************)
(* The run.  A file is a sequence of lines, or Absent.  The lookup answers *)
(* a search with the year parameter by api.with_year and a search without  *)
(* it by api.without_year; an answer is a result list, or a failure        *)
(* (transport error, timeout, non-2xx), which raises RequestException.     *)
(***************************************************************************)
Absent == <<NoneStr>>
NoRecord == [kind |-> "none"]

\* search_tmdb: the results, or [] when the request raised
search_tmdb(answer) == IF answer.ok THEN answer.results ELSE <<>>
AnswerFor(year) == IF TruthyInt(year) THEN api.with_year ELSE api.without_year

Line == At(lines, i)
Parsed == parse_org_title(Line)
Props == properties_of(lines, i)
IsMovieHeading == i < Len(lines) /\ IsStarLine(Line) /\ heading_matches(Line)

\* a backup step without the existence check: every run copies the document
Backup_overwriting == /\ pc = "start"
                      /\ disk' = [disk EXCEPT !.bak = disk.org]
                      /\ pc' = "read"
                      /\ UNCHANGED <<fn, arg, ret, lines, output_lines, i, cur, api, log>>

\* the backup, made when .org.bak does not exist
Backup == /\ pc = "start"
          /\ disk' = IF disk.bak = Absent THEN [disk EXCEPT !.bak = disk.org] ELSE disk
          /\ pc' = "read"
          /\ UNCHANGED <<fn, arg, ret, lines, output_lines, i, cur, api, log>>

\* lines = f.readlines(); output_lines = []; i = 0
ReadFile == /\ pc = "read"
            /\ lines' = disk.org /\ output_lines' = <<>> /\ i' = 0
            /\ pc' = "loop"
            /\ UNCHANGED <<fn, arg, ret, disk, cur, api, log>>

\* a line that is no movie heading is copied
CopyLine == /\ pc = "loop" /\ i < Len(lines) /\ ~IsMovieHeading
            /\ output_lines' = Append(output_lines, Line) /\ i' = i + 1
            /\ UNCHANGED <<fn, arg, ret, pc, disk, lines, cur, api, log>>

\* a record that is AI verified or has a TMDB_ID is copied up to the next '*' line
SkipRecord == /\ pc = "loop" /\ IsMovieHeading
              /\ LET props == Props  next == NextStar(lines, i + 1) IN
                    /\ is_ai_verified(props) \/ has_tmdb_id(props)
                    /\ output_lines' = output_lines \o <<Line>> \o Slice(lines, i + 1, next)
                    /\ i' = next
                    /\ log' = Append(log, [ev |-> "skip", reason |-> IF is_ai_verified(props) THEN "AI verified" ELSE "already has TMDB_ID", at |-> i, out_at |-> Len(output_lines)])
              /\ UNCHANGED <<fn, arg, ret, pc, disk, lines, cur, api>>

\* any other record is looked up: the query is chosen and printed
BeginRecord == /\ pc = "loop" /\ IsMovieHeading
               /\ LET props == Props  parsed == Parsed IN
                     /\ ~is_ai_verified(props) /\ ~has_tmdb_id(props)
                     /\ cur' = [kind |-> "record", at |-> i, query |-> search_query_of(props, parsed.cleaned), suggested |-> HasKey(props, KEY_SUGGESTED_SEARCH), year_hint |-> parsed.year, results |-> <<>>]
                     /\ log' = Append(log, [ev |-> "process", at |-> i, query |-> search_query_of(props, parsed.cleaned), suggested |-> HasKey(props, KEY_SUGGESTED_SEARCH)])
               /\ pc' = "search"
               /\ UNCHANGED <<fn, arg, ret, disk, lines, output_lines, i, api>>

\* find_best_match: results = search_tmdb(cleaned_title, year_hint, api_key)
Search == /\ pc = "search"
          /\ cur' = [cur EXCEPT !.results = search_tmdb(AnswerFor(cur.year_hint))]
          /\ log' = Append(log, [ev |-> "search", at |-> cur.at, query |-> cur.query, year |-> cur.year_hint, ok |-> AnswerFor(cur.year_hint).ok, count |-> Len(search_tmdb(AnswerFor(cur.year_hint)))])
          /\ pc' = IF search_tmdb(AnswerFor(cur.year_hint)) = <<>> /\ TruthyInt(cur.year_hint) THEN "retry" ELSE "emit"
          /\ UNCHANGED <<fn, arg, ret, disk, lines, output_lines, i, api>>

\* find_best_match: time.sleep(0.25); results = search_tmdb(cleaned_title, None, api_key)
SearchAgain == /\ pc = "retry"
               /\ cur' = [cur EXCEPT !.results = search_tmdb(AnswerFor(NoneInt))]
               /\ log' = log \o <<[ev |-> "sleep"], [ev |-> "search", at |-> cur.at, query |-> cur.query, year |-> NoneInt, ok |-> AnswerFor(NoneInt).ok, count |-> Len(search_tmdb(AnswerFor(NoneInt)))]>>
               /\ pc' = "emit"
               /\ UNCHANGED <<fn, arg, ret, disk, lines, output_lines, i, api>>

\* the rest of find_best_match, then the record's lines are appended to output_lines
match_info_of(c) == match_of(c.results, scored_by_titles(c.query, c.year_hint, c.results))
Emit == /\ pc = "emit"
        /\ LET match_info == match_info_of(cur) IN LET rec == record_output(lines, i, match_info) IN
              /\ output_lines' = output_lines \o rec.out
              /\ i' = rec.next
              /\ log' = Append(log, [ev |-> "result", at |-> i, match |-> match_info, suggested |-> cur.suggested, out_at |-> Len(output_lines), out_len |-> Len(rec.out), next |-> rec.next])
        /\ pc' = "write_tmp"
        /\ UNCHANGED <<fn, arg, ret, disk, lines, cur, api>>

\* the loop has ended: the final write happens when there is any output
EndLoop == /\ pc = "loop" /\ i >= Len(lines)
           /\ pc' = IF output_lines # <<>> THEN "final_tmp" ELSE "done"
           /\ UNCHANGED <<fn, arg, ret, disk, lines, output_lines, i, cur, api, log>>

\* a write that leaves out the input lines not yet processed
WriteTmp_output_only == /\ pc \in {"write_tmp", "final_tmp"}
                        /\ disk' = [disk EXCEPT !.tmp = output_lines]
                        /\ pc' = IF pc = "write_tmp" THEN "rename" ELSE "final_rename"
                        /\ UNCHANGED <<fn, arg, ret, lines, output_lines, i, cur, api, log>>

\* write_lines_to_file: the temporary file is written
WriteTmp == /\ pc \in {"write_tmp", "final_tmp"}
            /\ disk' = [disk EXCEPT !.tmp = output_lines \o Slice(lines, i, Len(lines))]
            /\ pc' = IF pc = "write_tmp" THEN "rename" ELSE "final_rename"
            /\ UNCHANGED <<fn, arg, ret, lines, output_lines, i, cur, api, log>>

\* write_lines_to_file: temp_path.replace(org_path)
Rename == /\ pc \in {"rename", "final_rename"}
          /\ disk' = [disk EXCEPT !.org = disk.tmp, !.tmp = Absent]
          /\ log' = Append(log, [ev |-> "write"])
          /\ pc' = IF pc = "rename" THEN "sleep" ELSE "done"
          /\ UNCHANGED <<fn, arg, ret, lines, output_lines, i, cur, api>>

\* time.sleep(0.25), then the loop continues
Sleep == /\ pc = "sleep"
         /\ log' = Append(log, [ev |-> "sleep"])
         /\ cur' = NoRecord
         /\ pc' = "loop"
         /\ UNCHANGED <<fn, arg, ret, disk, lines, output_lines, i, api>>

(***************************************************************************)
(* Spec: one run of process_org_file over a document of at most MaxRecords *)
(* records, against one of the lookup services.                            *)
(***************************************************************************)
MaxRecords == 2
H_HEAT_YEAR == <<"*", " ", "H", "e", "a", "t", " ", "(", "1", "9", "9", "5", ")", NL>>
H_HEAT == <<"*", " ", "H", "e", "a", "t", NL>>
P_SUGG == <<":", "S", "U", "G", "G", "E", "S", "T", "E", "D", "_", "S", "E", "A", "R", "C", "H", ":", " ", "H", "e", "a", "t", " ", "1", "9", "9", "5", NL>>
P_ID == <<":", "T", "M", "D", "B", "_", "I", "D", ":", " ", "9", "4", "9", NL>>
P_AI == <<":", "A", "I", "_", "V", "E", "R", "I", "F", "I", "E", "D", ":", " ", "t", "r", "u", "e", NL>>
P_NRF == <<":", "N", "E", "E", "D", "S", "_", "R", "E", "V", "I", "E", "W", ":", " ", "f", "a", "l", "s", "e", NL>>
P_NRT == <<":", "N", "E", "E", "D", "S", "_", "R", "E", "V", "I", "E", "W", ":", " ", "t", "r", "u", "e", NL>>
P_YEAR == <<" ", " ", ":", "Y", "E", "A", "R", ":", " ", "1", "9", "9", "5", NL>>
L_BODY == <<"N", "o", "t", "e", "s", NL>>
L_SUB == <<"*", "*", " ", "C", "a", "s", "t", NL>>
L_PRE == <<"#", "+", "T", "I", "T", "L", "E", ":", " ", "F", "i", "l", "m", "e", NL>>
T_HEAT == <<"H", "e", "a", "t">>
T_HAT == <<"H", "a", "t">>
T_DER_HUT == <<"D", "e", "r", " ", "H", "u", "t">>

Block(props) == <<LINE_PROPERTIES>> \o props \o <<LINE_END>>
RecordShapes == {<<H_HEAT_YEAR>>, <<H_HEAT, L_BODY>>, <<H_HEAT_YEAR>> \o Block(<<P_SUGG>>) \o <<L_BODY>>, <<H_HEAT>> \o Block(<<P_YEAR, P_SUGG>>), <<H_HEAT>> \o Block(<<P_ID, P_NRT>>) \o <<L_BODY>>, <<H_HEAT>> \o Block(<<P_NRF, P_AI, P_NRT>>), <<H_HEAT_YEAR>> \o Block(<<P_AI, P_NRF, P_SUGG>>) \o <<L_SUB>>, <<H_HEAT_YEAR, LINE_PROPERTIES, P_SUGG>>}
\* a document is a sequence of at most max parts, each a record or a line of text
Documents(max) == UNION {{Concat(rs) : rs \in [1..n -> RecordShapes \cup {<<L_PRE>>}]} : n \in 0..max}

HeatResult == [id |-> 123, title |-> T_HEAT, original_title |-> T_HEAT, release_date |-> ReleaseDate(1995)]
HatResult == [id |-> 7, title |-> T_HAT, original_title |-> T_DER_HUT, release_date |-> ReleaseDate(1994)]
Failed == [ok |-> FALSE, results |-> <<>>]
Found(rs) == [ok |-> TRUE, results |-> rs]
Apis == {[with_year |-> a[1], without_year |-> a[2]] : a \in {<<Failed, Failed>>, <<Found(<<>>), Found(<<>>)>>, <<Failed, Found(<<HatResult, HeatResult>>)>>, <<Found(<<HeatResult>>), Found(<<HeatResult>>)>>, <<Found(<<HatResult, HeatResult>>), Found(<<>>)>>}}

Init == /\ fn = "none" /\ arg = <<>> /\ ret = NotCalled
        /\ pc = "start"
        /\ disk \in {[org |-> d, tmp |-> Absent, bak |-> Absent] : d \in Documents(MaxRecords)}
        /\ lines = <<>> /\ output_lines = <<>> /\ i = 0 /\ cur = NoRecord
        /\ api \in Apis
        /\ log = <<>>
Next == Backup \/ ReadFile \/ CopyLine \/ SkipRecord \/ BeginRecord \/ Search \/ SearchAgain \/ Emit \/ EndLoop \/ WriteTmp \/ Rename \/ Sleep
Spec == Init /\ [][Next]_vars

(***************************************************************************)
(* Properties of the run.                                                  *)
(***************************************************************************)
Events(kind) == {n \in DOMAIN log : log[n].ev = kind}
\* the searches made for the record whose heading is line k
SearchesOf(k) == {n \in Events("search") : log[n].at = k}
\* the lines a result or skip event e wrote for its record, and the lines it read
OutOf(e) == Slice(output_lines, e.out_at, e.out_at + e.out_len)
InOf(e) == Slice(lines, e.at, e.next)
IsTmdbIdLine(l) == StartsWith(Strip(l), <<":">> \o KEY_TMDB_ID \o <<":">>)
IsSuggestedLine(l) == StartsWith(Strip(l), <<":">> \o KEY_SUGGESTED_SEARCH \o <<":">>)
IsNeedsReviewLine(l) == StartsWith(Strip(l), <<":">> \o KEY_NEEDS_REVIEW \o <<":">>)
\* ls with the line x inserted before index k
InsertAt(ls, k, x) == Slice(ls, 0, k) \o x \o Slice(ls, k, Len(ls))
\* the record's lines with `added` put at the end of its block, or in a new block under the heading
WithAdded(inp, added) == IF Len(inp) >= 2 /\ Strip(inp[2]) = PROPERTIES_MARK THEN InsertAt(inp, NextEnd(inp, 2), added) ELSE InsertAt(inp, 1, <<LINE_PROPERTIES>> \o added \o <<LINE_END>>)
IsMovieHeadingAt(k) == k < Len(lines) /\ IsStarLine(At(lines, k)) /\ heading_matches(At(lines, k))

\* C4: a record whose lookup yields no candidates (an empty answer, or every attempt
\* failed) gets NO_RESULTS, no identifier, confidence 0, needs_review; it is written
\* with NEEDS_REVIEW: true and no TMDB_ID line; the run goes on with the next record
C4_NoCandidatesLeavesRecordForReview ==
    \A n \in Events("result") : (\A m \in SearchesOf(log[n].at) : log[m].count = 0) =>
        /\ log[n].match.match_status = "NO_RESULTS" /\ log[n].match.tmdb_id = NoneInt
        /\ log[n].match.confidence.hund = 0 /\ log[n].match.needs_review
        /\ OutOf(log[n]) = WithAdded(InOf(log[n]), <<LINE_NEEDS_REVIEW_true>>)
        /\ \A k \in DOMAIN OutOf(log[n]) : ~IsTmdbIdLine(OutOf(log[n])[k])
        /\ (pc = "done" /\ IsMovieHeadingAt(log[n].next)) => \E m \in DOMAIN log : log[m].ev \in {"skip", "result"} /\ log[m].at = log[n].next
\* the run has ended; a record whose every search failed was left for review, and the
\* record after it was handled
C4_Witness == pc = "done" /\ \E n \in Events("result") : Cardinality(SearchesOf(log[n].at)) = 2 /\ (\A m \in SearchesOf(log[n].at) : ~log[m].ok) /\ log[n].match.match_status = "NO_RESULTS" /\ \E m \in Events("result") : log[m].at = log[n].next

\* C5: a record whose block has AI_VERIFIED = true with NEEDS_REVIEW = false, or has a
\* TMDB_ID property, causes no lookup call, and all its lines are written unchanged
BlockLines(k) == IF k + 1 < Len(lines) /\ Strip(At(lines, k + 1)) = PROPERTIES_MARK THEN Slice(lines, k + 2, NextEnd(lines, k + 2)) ELSE <<>>
BlockValues(k, key) == {n \in DOMAIN BlockLines(k) : prop_match(Strip(BlockLines(k)[n])) # <<>> /\ prop_match(Strip(BlockLines(k)[n]))[1] = key}
BlockValue(k, key) == prop_match(Strip(BlockLines(k)[CHOOSE n \in BlockValues(k, key) : \A m \in BlockValues(k, key) : m <= n]))[2]
Exempt(k) == \/ BlockValues(k, KEY_TMDB_ID) # {}
             \/ /\ BlockValues(k, KEY_AI_VERIFIED) # {} /\ BlockValue(k, KEY_AI_VERIFIED) = STR_true
                /\ BlockValues(k, KEY_NEEDS_REVIEW) # {} /\ BlockValue(k, KEY_NEEDS_REVIEW) = STR_false
C5_ExemptRecordsAreUntouched ==
    /\ \A n \in DOMAIN log : log[n].ev \in {"process", "search", "result"} => ~Exempt(log[n].at)
    /\ \A n \in Events("skip") : Exempt(log[n].at) /\ Slice(output_lines, log[n].out_at, log[n].out_at + (NextStar(lines, log[n].at + 1) - log[n].at)) = Slice(lines, log[n].at, NextStar(lines, log[n].at + 1))
    /\ (pc = "done" /\ log # <<>>) => disk.org = output_lines
\* the run has ended; it skipped a record with a TMDB_ID and NEEDS_REVIEW: true, and a
\* verified record
C5_Witness == pc = "done" /\ (\E n \in Events("skip") : log[n].reason = "already has TMDB_ID" /\ BlockValue(log[n].at, KEY_NEEDS_REVIEW) = STR_true) /\ (\E n \in Events("skip") : log[n].reason = "AI verified")

\* C6: when SUGGESTED_SEARCH was the query and a TMDB_ID is written, the record's
\* output block has no SUGGESTED_SEARCH line; when no match was found the
\* SUGGESTED_SEARCH lines are kept as they were
OutBlock(out) == Slice(out, 0, NextEnd(out, 0))
WroteTmdbId(e) == \E k \in DOMAIN OutOf(e) : IsTmdbIdLine(OutOf(e)[k])
C6_SuggestedSearchIsConsumed ==
    \A n \in Events("result") : log[n].suggested =>
        /\ WroteTmdbId(log[n]) => \A k \in DOMAIN OutBlock(OutOf(log[n])) : ~IsSuggestedLine(OutBlock(OutOf(log[n]))[k])
        /\ ~WroteTmdbId(log[n]) => SelectSeq(OutOf(log[n]), IsSuggestedLine) = SelectSeq(InOf(log[n]), IsSuggestedLine) /\ SelectSeq(InOf(log[n]), IsSuggestedLine) # <<>>
        /\ WroteTmdbId(log[n]) = (log[n].match.match_status # "NO_RESULTS")
\* the run has ended; one record's suggested search found a match and another's did not
C6_Witness == pc = "done" /\ \E n, m \in Events("result") : log[n].suggested /\ log[m].suggested /\ WroteTmdbId(log[n]) /\ ~WroteTmdbId(log[m])

\* C7, as stated: one record with SUGGESTED_SEARCH "Heat 1995" and no TMDB_ID, against a
\* lookup answering with the one candidate Heat, 1995-12-15, id 123, ends with
\* TMDB_ID: 123, no SUGGESTED_SEARCH and no NEEDS_REVIEW
MovieHeadings == {k \in 0..(Len(lines) - 1) : IsMovieHeadingAt(k)}
TheHeading == CHOOSE k \in MovieHeadings : TRUE
HeatOnly == Found(<<HeatResult>>)
C7_Case == /\ api = [with_year |-> HeatOnly, without_year |-> HeatOnly]
           /\ Cardinality(MovieHeadings) = 1 /\ ~Exempt(TheHeading)
           /\ BlockValues(TheHeading, KEY_SUGGESTED_SEARCH) # {} /\ BlockValue(TheHeading, KEY_SUGGESTED_SEARCH) = <<"H", "e", "a", "t", " ", "1", "9", "9", "5">>
HasLine(ls, l) == \E k \in DOMAIN ls : ls[k] = l
HasSuggestedLine(ls) == \E k \in DOMAIN ls : IsSuggestedLine(ls[k])
HasNeedsReviewLine(ls) == \E k \in DOMAIN ls : IsNeedsReviewLine(ls[k])
ConfidenceLine(heading_year) == PREFIX_TMDB_CONFIDENCE \o (IF heading_year = 1995 THEN <<"7", "1", ".", "5", "4">> ELSE <<"6", "1", ".", "5", "4">>) \o <<NL>>
is_property_line(in_properties, stripped) == in_properties /\ StartsWith(stripped, <<":">>) /\ ~EndsWith(stripped, <<":">>)
\* ':' in property_line[1:]
has_second_colon(stripped) == \E k \in 2..Len(stripped) : stripped[k] = ":"
\* property_line.split(':', 2)[1]
prop_name_of(stripped) == LET k == CHOOSE n \in 2..Len(stripped) : stripped[n] = ":" /\ \A m \in 2..(n - 1) : stripped[m] # ":" IN SubSeq(stripped, 2, k - 1)
\* the backwards search that deletes the first line equal to content
remove_last_equal(rs, content) == LET hits == {k \in DOMAIN rs : rs[k] = content} IN IF hits = {} THEN rs ELSE LET k == CHOOSE n \in hits : \A m \in hits : m <= n IN Take(rs, k - 1) \o Drop(rs, k)
\* current_properties[name] = (idx, line)
track(current_properties, name, idx) == {p \in current_properties : p[1] # name} \cup {<<name, idx>>}
first_occurrence_idx(current_properties, name) == (CHOOSE p \in current_properties : p[1] = name)[2]

\* one pass of the while loop, for the line ls[idx]
dedup_step(st, ls, idx) == LET line == At(ls, idx)  stripped == Strip(At(ls, idx)) IN IF stripped = PROPERTIES_MARK THEN [result_lines |-> Append(st.result_lines, line), in_properties |-> TRUE, current_properties |-> {}] ELSE IF stripped = END_MARK THEN [result_lines |-> Append(st.result_lines, line), in_properties |-> FALSE, current_properties |-> {}] ELSE IF is_property_line(st.in_properties, stripped) /\ has_second_colon(stripped) THEN (IF \E p \in st.current_properties : p[1] = prop_name_of(stripped) THEN [result_lines |-> Append(remove_last_equal(st.result_lines, At(ls, first_occurrence_idx(st.current_properties, prop_name_of(stripped)))), line), in_properties |-> st.in_properties, current_properties |-> track(st.current_properties, prop_name_of(stripped), idx)] ELSE [result_lines |-> Append(st.result_lines, line), in_properties |-> st.in_properties, current_properties |-> track(st.current_properties, prop_name_of(stripped), idx)]) ELSE [result_lines |-> Append(st.result_lines, line), in_properties |-> st.in_properties, current_properties |-> st.current_properties]

RECURSIVE dedup_loop(_, _, _)
dedup_loop(st, ls, idx) == IF idx < Len(ls) THEN dedup_loop(dedup_step(st, ls, idx), ls, idx + 1) ELSE st
\* deduplicate_properties(input_file, output_file): the lines written to output_file
deduplicate_properties(ls) == dedup_loop([result_lines |-> <<>>, in_properties |-> FALSE, current_properties |-> {}], ls, 0).result_lines

(***************************************************************************)
(* SpecDedup: deduplicate_properties applied to a file of one or two       *)
(* records whose blocks hold at most MaxProps lines.                       *)
(***************************************************************************)
MaxProps == 3
D_YEAR_1999 == <<":", "Y", "E", "A", "R", ":", " ", "1", "9", "9", "9", NL>>
D_YEAR_2001 == <<":", "Y", "E", "A", "R", ":", " ", "2", "0", "0", "1", NL>>
D_YEAR_1999_INDENTED == <<" ", " ", ":", "Y", "E", "A", "R", ":", " ", "1", "9", "9", "9", NL>>
D_YEAR_EMPTY == <<":", "Y", "E", "A", "R", ":", NL>>
D_TITLE == <<":", "T", "I", "T", "L", "E", ":", " ", "H", "e", "a", "t", NL>>
D_TEXT == <<"N", "o", "t", "e", "s", NL>>

DedupLines == {D_YEAR_1999, D_YEAR_2001, D_YEAR_1999_INDENTED, D_YEAR_EMPTY, D_TITLE, D_TEXT}
DedupBlocks(max) == UNION {{Block(ps) : ps \in [1..n -> DedupLines]} : n \in 0..max}
DedupInputs(max) == {<<H_HEAT>> \o b \o body \o more : b \in DedupBlocks(max), body \in {<<>>, <<D_YEAR_1999>>}, more \in {<<>>, <<H_HEAT_YEAR>> \o Block(<<D_YEAR_1999, D_YEAR_1999>>), <<H_HEAT_YEAR, D_YEAR_2001, D_YEAR_2001>>}}

InitDedup == fn = "deduplicate_properties" /\ arg \in DedupInputs(MaxProps) /\ ret = NotCalled /\ RunIdle
CallDedup == fn = "deduplicate_properties" /\ ~ret.done /\ ret' = [done |-> TRUE, value |-> deduplicate_properties(arg)] /\ UNCHANGED <<fn, arg>> /\ RunUnchanged
SpecDedup == InitDedup /\ [][CallDedup]_vars

\* the key of a line of the form :KEY: value, or NoneStr
KeyOfLine(l) == LET t == Strip(l) IN IF StartsWith(t, <<":">>) /\ has_second_colon(t) /\ prop_name_of(t) # <<>> THEN prop_name_of(t) ELSE NoneStr
\* the 0-based index of the :END: closing the block that line k lies in, or -1 when
\* line k lies in no block
BlockEndOf(ls, k) == LET opens == {n \in 0..(k - 1) : Strip(At(ls, n)) = PROPERTIES_MARK /\ NextEnd(ls, n) > k} IN IF opens = {} \/ Strip(At(ls, k)) = PROPERTIES_MARK THEN NoneInt ELSE NextEnd(ls, k)
\* line k is an earlier occurrence of a key that occurs again later in its block
IsEarlierDuplicate(ls, k) == BlockEndOf(ls, k) # NoneInt /\ KeyOfLine(At(ls, k)) # NoneStr /\ \E n \in (k + 1)..(BlockEndOf(ls, k) - 1) : KeyOfLine(At(ls, n)) = KeyOfLine(At(ls, k))
KeptIndexes(ls) == {k \in 0..(Len(ls) - 1) : ~IsEarlierDuplicate(ls, k)}
RECURSIVE KeepOnly(_, _, _)
KeepOnly(ls, kept, k) == IF k >= Len(ls) THEN <<>> ELSE (IF k \in kept THEN <<At(ls, k)>> ELSE <<>>) \o KeepOnly(ls, kept, k + 1)

\* C10: for each key occurring more than once in a :PROPERTIES: block only the last
\* occurrence is written, at its own position; every other line is written unchanged
\* and in order
C10_LastOccurrenceWins == ret.done => ret.value = KeepOnly(arg, KeptIndexes(arg), 0)

(***************************************************************************)
(* parse_org_file of inject_knowledge_properties and of                    *)
(* update_tmdb_from_suggested: the records of a document with their line   *)
(* ranges.  An entry's properties are a Python dict: a sequence of         *)
(* <<name, value>> pairs in insertion order.                               *)
(***************************************************************************)
HEADING_MARK == <<"*", " ">>

\* dict: key in d
DictHas(d, key) == \E n \in DOMAIN d : d[n][1] = key
\* dict: d[key]
DictGet(d, key) == d[CHOOSE n \in DOMAIN d : d[n][1] = key][2]
\* dict: d[key] = value (an existing key keeps its place, a new key goes last)
DictSet(d, key, value) == IF DictHas(d, key) THEN [n \in DOMAIN d |-> IF d[n][1] = key THEN <<key, value>> ELSE d[n]] ELSE Append(d, <<key, value>>)
RECURSIVE DictUpdate(_, _)
\* dict.update
DictUpdate(d, new) == IF new = <<>> THEN d ELSE DictUpdate(DictSet(d, Head(new)[1], Head(new)[2]), Tail(new))

RECURSIVE NonColonRun(_)
\* the longest prefix without a colon: [^:]+ of the property pattern
NonColonRun(s) == IF s # <<>> /\ s[1] # ":" THEN <<s[1]>> \o NonColonRun(Tail(s)) ELSE <<>>
\* re.match(r":([^:]+):\s*(.*)", stripped): <<>> when there is no match, else <<group(1), group(2)>>
kv_match(s) == IF s = <<>> \/ s[1] # ":" THEN <<>> ELSE LET name == NonColonRun(Tail(s)) IN LET rest == Drop(s, 1 + Len(name)) IN IF name = <<>> \/ rest = <<>> THEN <<>> ELSE <<name, LStrip(Tail(rest))>>

\* the entry opened by a headline at index k
new_entry(line, k) == [title |-> IF EndsWith(Drop(line, 2), <<NL>>) THEN Take(Drop(line, 2), Len(line) - 3) ELSE Drop(line, 2), start_line |-> k, properties_start |-> NoneInt, properties_end |-> NoneInt, properties |-> <<>>, end_line |-> NoneInt]
\* the body of the loop for a line below a headline
entry_step(e, line, k) == IF Strip(line) = PROPERTIES_MARK THEN [e EXCEPT !.properties_start = k] ELSE IF Strip(line) = END_MARK THEN [e EXCEPT !.properties_end = k] ELSE IF e.properties_start # NoneInt /\ e.properties_end = NoneInt /\ kv_match(Strip(line)) # <<>> THEN [e EXCEPT !.properties = DictSet(e.properties, kv_match(Strip(line))[1], kv_match(Strip(line))[2])] ELSE e
\* the body of the loop: st.entries are the closed entries, st.current is <<>> (None) or <<the open entry>>
parse_step(st, line, k) == IF StartsWith(line, HEADING_MARK) THEN [entries |-> st.entries \o [n \in DOMAIN st.current |-> [st.current[n] EXCEPT !.end_line = k]], current |-> <<new_entry(line, k)>>] ELSE [entries |-> st.entries, current |-> [n \in DOMAIN st.current |-> entry_step(st.current[n], line, k)]]
RECURSIVE parse_loop(_, _, _)
parse_loop(st, ls, k) == IF k >= Len(ls) THEN st ELSE parse_loop(parse_step(st, At(ls, k), k), ls, k + 1)
\* parse_org_file without its lines 73-75: the entry open at the end of the file is not returned
parse_org_file_without_last(ls) == parse_loop([entries |-> <<>>, current |-> <<>>], ls, 0).entries
\* parse_org_file: the entries (the lines are the argument itself)
parse_org_file(ls) == LET st == parse_loop([entries |-> <<>>, current |-> <<>>], ls, 0) IN st.entries \o [n \in DOMAIN st.current |-> [st.current[n] EXCEPT !.end_line = Len(ls)]]

(***************************************************************************)
(* parse_org_file applied to every document of at most MaxLines lines.     *)
(***************************************************************************)
MaxLines == 4
ParseLines == {H_HEAT, LINE_PROPERTIES, LINE_END, D_YEAR_1999, P_YEAR, L_SUB, L_BODY}
ParseDocuments(max) == UNION {[1..n -> ParseLines] : n \in 0..max}

InitParse == fn = "parse_org_file" /\ arg \in ParseDocuments(MaxLines) /\ ret = NotCalled /\ RunIdle
CallParse == fn = "parse_org_file" /\ ~ret.done /\ ret' = [done |-> TRUE, value |-> parse_org_file(arg)] /\ UNCHANGED <<fn, arg>> /\ RunUnchanged
SpecParse == InitParse /\ [][CallParse]_vars

\* the indexes of the headlines of a document, in file order
HeadlineIndexes(ls) == {k \in 0..(Len(ls) - 1) : StartsWith(At(ls, k), HEADING_MARK)}
\* the n-th smallest element of a set of indexes
RECURSIVE NthOf(_, _)
NthOf(S, n) == LET least == CHOOSE k \in S : \A m \in S : k <= m IN IF n = 1 THEN least ELSE NthOf(S \ {least}, n - 1)
\* the span an entry must have: from its headline to the line before the next headline, or to the end of the file
SpanEnd(ls, n) == IF n = Cardinality(HeadlineIndexes(ls)) THEN Len(ls) ELSE NthOf(HeadlineIndexes(ls), n + 1)
InsideSpan(e, k) == k = NoneInt \/ (e.start_line < k /\ k < e.end_line)

\* C20: parse_org_file returns one entry for each headline, in file order; entry n
\* starts at the n-th headline and ends where entry n + 1 starts, the last entry ends
\* at the end of the file (so the spans are disjoint and cover every line from the first
\* headline on), and properties_start and properties_end, when set, lie inside the span
C20_SpansAreConsecutive == ret.done => /\ Len(ret.value) = Cardinality(HeadlineIndexes(arg))
                                       /\ \A n \in DOMAIN ret.value : /\ ret.value[n].start_line = NthOf(HeadlineIndexes(arg), n)
                                                                      /\ ret.value[n].end_line = SpanEnd(arg, n)
                                                                      /\ ret.value[n].start_line < ret.value[n].end_line
                                                                      /\ InsideSpan(ret.value[n], ret.value[n].properties_start)
                                                                      /\ InsideSpan(ret.value[n], ret.value[n].properties_end)
\* two records, the first with a complete block, the last closed by the end of the file
C20_Witness == ret.done /\ Len(ret.value) = 2 /\ ret.value[1].properties_start # NoneInt /\ ret.value[1].properties_end # NoneInt /\ ret.value[1].properties_start < ret.value[1].properties_end /\ ret.value[2].end_line = Len(arg)

(***************************************************************************)
(* inject_knowledge_properties.update_org_file: the properties of the      *)
(* knowledge entries are merged into the records of the same title.  The   *)
(* knowledge is a dict from title to entry; an entry has the fields        *)
(* tmdb_id, suggested_search, corrected, year and notes (None when the     *)
(* JSON has null or lacks the key).                                        *)
(***************************************************************************)
KEY_AI_TITLE == <<"A", "I", "_", "T", "I", "T", "L", "E">>
KEY_YEAR == <<"Y", "E", "A", "R">>
KEY_AI_NOTES == <<"A", "I", "_", "N", "O", "T", "E", "S">>
KEY_TMDB_TITLE == <<"T", "M", "D", "B", "_", "T", "I", "T", "L", "E">>
KEY_TMDB_CONFIDENCE == <<"T", "M", "D", "B", "_", "C", "O", "N", "F", "I", "D", "E", "N", "C", "E">>

\* new_props of update_org_file, in the order the code fills it
new_props_of(k) == (IF k.tmdb_id # NoneInt THEN <<<<KEY_TMDB_ID, FormatNat(k.tmdb_id)>>>> ELSE <<>>) \o (IF TruthyStr(k.suggested_search) THEN <<<<KEY_SUGGESTED_SEARCH, k.suggested_search>>>> ELSE <<>>) \o (IF TruthyStr(k.corrected) THEN <<<<KEY_AI_TITLE, k.corrected>>>> ELSE <<>>) \o (IF k.year # NoneInt THEN <<<<KEY_YEAR, FormatNat(k.year)>>>> ELSE <<>>) \o (IF TruthyStr(k.notes) THEN <<<<KEY_AI_NOTES, k.notes>>>> ELSE <<>>)

\* f":{prop_name}: {prop_value}\n"
prop_line(name, value) == <<":">> \o name \o <<":", " ">> \o value \o <<NL>>
\* the rebuilt block: prop_lines
prop_lines_of(props) == <<LINE_PROPERTIES>> \o [n \in DOMAIN props |-> prop_line(props[n][1], props[n][2])] \o <<LINE_END>>

\* a slice bound of Python: None is the start of the list, a bound past the end is the end
SliceBound(ls, k) == IF k = NoneInt THEN 0 ELSE IF k > Len(ls) THEN Len(ls) ELSE k
\* lines[start:end] = new (a slice whose end lies before its start is empty, at start)
SliceAssign(ls, start, end, new) == LET a == SliceBound(ls, start) IN LET b == IF SliceBound(ls, end) < a THEN a ELSE SliceBound(ls, end) IN Slice(ls, 0, a) \o new \o Slice(ls, b, Len(ls))

\* the body of the loop of update_org_file; properties_end + 1 raises TypeError when properties_end is None
inject_entry(st, entry, knowledge) == IF st.crashed \/ ~DictHas(knowledge, entry.title) \/ new_props_of(DictGet(knowledge, entry.title)) = <<>> THEN st ELSE IF entry.properties_end = NoneInt THEN [st EXCEPT !.crashed = TRUE] ELSE [st EXCEPT !.lines = SliceAssign(st.lines, entry.properties_start, entry.properties_end + 1, prop_lines_of(DictUpdate(entry.properties, new_props_of(DictGet(knowledge, entry.title))))), !.updates = st.updates + 1]
RECURSIVE inject_loop(_, _, _, _)
\* for entry in reversed(entries)
inject_loop(st, entries, n, knowledge) == IF n = 0 THEN st ELSE inject_loop(inject_entry(st, entries[n], knowledge), entries, n - 1, knowledge)
\* update_org_file up to the write: the lines to write, or crashed
merged_lines(ls, knowledge) == inject_loop([lines |-> ls, updates |-> 0, crashed |-> FALSE], parse_org_file(ls), Len(parse_org_file(ls)), knowledge)

(***************************************************************************)
(* update_tmdb_from_suggested.update_org_entries: every record with a      *)
(* SUGGESTED_SEARCH property (and no settled TMDB_ID) is looked up and the *)
(* best of the first five results is written into its block.               *)
(***************************************************************************)
SuggestedTopN == 5
SuggestedBonusExact == 20
SuggestedBonusNear == 10

\* the filter that fills to_process
needs_processing(props) == DictHas(props, KEY_SUGGESTED_SEARCH) /\ ~(DictHas(props, KEY_TMDB_ID) /\ (~DictHas(props, KEY_NEEDS_REVIEW) \/ DictGet(props, KEY_NEEDS_REVIEW) # STR_true))
RECURSIVE to_process_of(_)
to_process_of(entries) == IF entries = <<>> THEN <<>> ELSE (IF needs_processing(Head(entries).properties) THEN <<Head(entries)>> ELSE <<>>) \o to_process_of(Tail(entries))

\* int(props["YEAR"]) for a value of digits; any other value is taken to raise ValueError
int_or_none(s) == IF s # <<>> /\ \A n \in DOMAIN s : IsDigit(s[n]) THEN ParseInt(s) ELSE NoneInt
\* re.search(r'\b(19\d{2}|20[0-2]\d)\b', s): the positions where the pattern matches
year_matches(s) == {p \in 1..(Len(s) - 3) : /\ \A n \in p..(p + 3) : IsDigit(s[n])
                                            /\ (<<s[p], s[p + 1]>> = <<"1", "9">> \/ (<<s[p], s[p + 1]>> = <<"2", "0">> /\ s[p + 2] \in {"0", "1", "2"}))
                                            /\ (p = 1 \/ ~IsWord(s[p - 1]))
                                            /\ (p + 3 = Len(s) \/ ~IsWord(s[p + 4]))}
\* year_hint of update_org_entries
year_hint_of(props) == LET by_prop == IF DictHas(props, KEY_YEAR) THEN int_or_none(DictGet(props, KEY_YEAR)) ELSE NoneInt IN LET s == DictGet(props, KEY_SUGGESTED_SEARCH) IN IF TruthyInt(by_prop) THEN by_prop ELSE IF year_matches(s) = {} THEN NoneInt ELSE LET p == CHOOSE q \in year_matches(s) : \A r \in year_matches(s) : q <= r IN ParseInt(SubSeq(s, p, p + 3))

\* calculate_confidence of update_tmdb_from_suggested
calculate_confidence(suggested, tmdb_title, year_hint, tmdb_year) == LET title_ratio == fuzz_ratio(Lower(suggested), Lower(tmdb_title)) IN LET y == int_or_none(Take(tmdb_year, IF Len(tmdb_year) < 4 THEN Len(tmdb_year) ELSE 4)) IN LET year_bonus == IF TruthyInt(year_hint) /\ TruthyStr(tmdb_year) /\ y # NoneInt THEN (IF y = year_hint THEN SuggestedBonusExact ELSE IF Abs(y - year_hint) <= 1 THEN SuggestedBonusNear ELSE 0) ELSE 0 IN PyMin(PyInt(100), Plus(title_ratio, year_bonus))

RECURSIVE best_of_first(_, _, _, _)
\* the loop over results[:5]: best is <<>> (None) or <<result>>, replaced only by a greater confidence
best_of_first(results, suggested, year_hint, best) == IF results = <<>> THEN best ELSE LET c == calculate_confidence(suggested, Head(results).title, year_hint, Head(results).release_date) IN best_of_first(Tail(results), suggested, year_hint, IF Lt(best.confidence, c) THEN [confidence |-> c, match |-> <<Head(results)>>] ELSE best)
best_match_of(results, suggested, year_hint) == best_of_first(Take(results, IF Len(results) < SuggestedTopN THEN Len(results) ELSE SuggestedTopN), suggested, year_hint, [confidence |-> PyInt(0), match |-> <<>>])

\* f"{best_confidence:.2f}"
Format2f(x) == LET h == Round2(x).hund IN FormatNat(h \div 100) \o <<".", Digits[((h % 100) \div 10) + 1], Digits[(h % 10) + 1]>>

\* the properties of an entry after a match
matched_props(props, best) == DictSet(DictSet(DictSet(props, KEY_TMDB_ID, FormatNat(best.match[1].id)), KEY_TMDB_TITLE, best.match[1].title), KEY_TMDB_CONFIDENCE, Format2f(best.confidence))
\* the body of the loop of update_org_entries once search_tmdb has answered: the block is
\* replaced at the line numbers parse_org_file recorded before the loop
suggested_entry(st, entry, results) == LET best == best_match_of(results, DictGet(entry.properties, KEY_SUGGESTED_SEARCH), year_hint_of(entry.properties)) IN IF results = <<>> \/ best.match = <<>> THEN st ELSE IF entry.properties_end = NoneInt THEN [st EXCEPT !.crashed = TRUE] ELSE [st EXCEPT !.lines = SliceAssign(st.lines, entry.properties_start, entry.properties_end + 1, prop_lines_of(matched_props(entry.properties, best))), !.updates = st.updates + 1]

(***************************************************************************)
(* The two merge workflows as runs.  The run record cur holds the number   *)
(* of the run, the document before the first run and at the start of this  *)
(* run, the document the first run ended with, and for update_org_entries  *)
(* the entries still to process and the number of updates.  Writing back   *)
(* is open(org_path, "w"), which truncates the file, then writelines.      *)
(***************************************************************************)
MergeRun(run, input, before, first, to_process, updates) == [kind |-> "merge", run |-> run, input |-> input, before |-> before, first |-> first, to_process |-> to_process, updates |-> updates]

\* update_org_file: parse_org_file and the loop over the entries
InjectMerge == /\ pc = "inject_start"
               /\ lines' = merged_lines(disk.org, arg).lines
               /\ pc' = IF merged_lines(disk.org, arg).crashed THEN "inject_crashed" ELSE "inject_merged"
               /\ cur' = [cur EXCEPT !.before = disk.org, !.updates = merged_lines(disk.org, arg).updates]
               /\ UNCHANGED <<fn, arg, ret, disk, output_lines, i, api, log>>
\* open(org_path, "w")
InjectOpen == /\ pc = "inject_merged"
              /\ disk' = [disk EXCEPT !.org = <<>>]
              /\ pc' = "inject_opened"
              /\ UNCHANGED <<fn, arg, ret, lines, output_lines, i, cur, api, log>>
\* f.writelines(lines)
InjectWrite == /\ pc = "inject_opened"
               /\ disk' = [disk EXCEPT !.org = lines]
               /\ pc' = "inject_written"
               /\ log' = Append(log, <<"write", "org">>)
               /\ UNCHANGED <<fn, arg, ret, lines, output_lines, i, cur, api>>
\* the script is run a second time with the same knowledge
InjectAgain == /\ pc = "inject_written" /\ cur.run = 1
               /\ cur' = MergeRun(2, cur.input, disk.org, disk.org, <<>>, 0)
               /\ pc' = "inject_start"
               /\ lines' = <<>>
               /\ UNCHANGED <<fn, arg, ret, disk, output_lines, i, api, log>>

\* update_org_entries: parse_org_file and the filter
SuggestedParse == /\ pc = "suggested_start"
                  /\ lines' = disk.org
                  /\ cur' = [cur EXCEPT !.to_process = to_process_of(parse_org_file(disk.org))]
                  /\ pc' = "suggested_loop"
                  /\ UNCHANGED <<fn, arg, ret, disk, output_lines, i, api, log>>
\* one pass of the loop: search_tmdb, time.sleep(RATE_LIMIT_DELAY), the best match, the block
SuggestedEntry == /\ pc = "suggested_loop" /\ cur.to_process # <<>>
                  /\ LET entry == Head(cur.to_process) IN LET st == suggested_entry([lines |-> lines, updates |-> cur.updates, crashed |-> FALSE], entry, search_tmdb(AnswerFor(year_hint_of(entry.properties)))) IN
                         /\ lines' = st.lines
                         /\ cur' = [cur EXCEPT !.to_process = Tail(cur.to_process), !.updates = st.updates]
                         /\ pc' = IF st.crashed THEN "suggested_crashed" ELSE "suggested_loop"
                         /\ log' = log \o <<<<"search", DictGet(entry.properties, KEY_SUGGESTED_SEARCH), year_hint_of(entry.properties)>>, <<"sleep">>>>
                  /\ UNCHANGED <<fn, arg, ret, disk, output_lines, i, api>>
\* nothing was updated: the file is not written
SuggestedNoWrite == /\ pc = "suggested_loop" /\ cur.to_process = <<>> /\ cur.updates = 0
                    /\ pc' = "suggested_done"
                    /\ UNCHANGED <<fn, arg, ret, disk, lines, output_lines, i, cur, api, log>>
\* open(org_path, "w")
SuggestedOpen == /\ pc = "suggested_loop" /\ cur.to_process = <<>> /\ cur.updates > 0
                 /\ disk' = [disk EXCEPT !.org = <<>>]
                 /\ pc' = "suggested_opened"
                 /\ UNCHANGED <<fn, arg, ret, lines, output_lines, i, cur, api, log>>
\* f.writelines(lines)
SuggestedWrite == /\ pc = "suggested_opened"
                  /\ disk' = [disk EXCEPT !.org = lines]
                  /\ pc' = "suggested_done"
                  /\ log' = Append(log, <<"write", "org">>)
                  /\ UNCHANGED <<fn, arg, ret, lines, output_lines, i, cur, api>>

MaxMerge == 2
Q_HEAT_1995 == <<"H", "e", "a", "t", " ", "1", "9", "9", "5">>
T_HEAT_YEAR == <<"H", "e", "a", "t", " ", "(", "1", "9", "9", "5", ")">>
\* record shapes: without a block, with a block, with an indented line and a line that is no
\* property, with a settled and with a flagged TMDB_ID, with a second drawer under a
\* subheading (closed and left open), with a block left open
MergeShapes == {<<H_HEAT_YEAR>>, <<H_HEAT, L_BODY>>, <<H_HEAT>> \o Block(<<P_SUGG>>) \o <<L_BODY>>, <<H_HEAT>> \o Block(<<P_YEAR, D_TEXT, P_ID>>), <<H_HEAT_YEAR>> \o Block(<<P_ID, P_NRT, P_SUGG>>), <<H_HEAT>> \o Block(<<D_YEAR_1999, D_YEAR_2001>>) \o <<L_SUB>> \o Block(<<P_ID>>), <<H_HEAT>> \o Block(<<P_ID>>) \o <<L_SUB, LINE_PROPERTIES, P_SUGG>>, <<H_HEAT_YEAR, LINE_PROPERTIES, P_SUGG>>}
MergeDocuments(max) == UNION {{Concat(rs) : rs \in [1..n -> MergeShapes]} : n \in 0..max}
KnowledgeEntry(tmdb_id, suggested_search, corrected, year, notes) == [tmdb_id |-> tmdb_id, suggested_search |-> suggested_search, corrected |-> corrected, year |-> year, notes |-> notes]
KnowledgeEntries == {KnowledgeEntry(949, NoneStr, NoneStr, NoneInt, NoneStr), KnowledgeEntry(NoneInt, Q_HEAT_1995, T_HEAT, 1995, <<>>), KnowledgeEntry(NoneInt, NoneStr, <<>>, NoneInt, NoneStr)}
Knowledges == {<<>>} \cup {<<<<T_HEAT, k>>>> : k \in KnowledgeEntries} \cup {<<<<T_HEAT_YEAR, k>>, <<T_HEAT, k>>>> : k \in KnowledgeEntries}

InitMerge == /\ fn = "none" /\ ret = NotCalled
             /\ disk \in {[org |-> d, tmp |-> Absent, bak |-> Absent] : d \in MergeDocuments(MaxMerge)}
             /\ \/ pc = "inject_start" /\ arg \in Knowledges /\ api = <<>>
                \/ pc = "suggested_start" /\ arg = <<>> /\ api \in Apis
             /\ lines = <<>> /\ output_lines = <<>> /\ i = 0
             /\ cur = MergeRun(1, disk.org, disk.org, Absent, <<>>, 0)
             /\ log = <<>>
NextMerge == InjectMerge \/ InjectOpen \/ InjectWrite \/ InjectAgain \/ SuggestedParse \/ SuggestedEntry \/ SuggestedNoWrite \/ SuggestedOpen \/ SuggestedWrite
SpecMerge == InitMerge /\ [][NextMerge]_vars

(***************************************************************************)
(* Properties of the merge workflows.                                      *)
(***************************************************************************)
\* the run has written the document back
MergeWritten == pc = "inject_written" \/ (pc = "suggested_done" /\ cur.updates > 0)
\* the new properties the run has for an entry of the document it read
NewPropsFor(entry) == IF cur.run = 2 \/ arg # <<>> \/ api = <<>> THEN (IF DictHas(arg, entry.title) THEN new_props_of(DictGet(arg, entry.title)) ELSE <<>>) ELSE IF ~needs_processing(entry.properties) THEN <<>> ELSE LET best == best_match_of(search_tmdb(AnswerFor(year_hint_of(entry.properties))), DictGet(entry.properties, KEY_SUGGESTED_SEARCH), year_hint_of(entry.properties)) IN IF best.match = <<>> THEN <<>> ELSE <<<<KEY_TMDB_ID, FormatNat(best.match[1].id)>>, <<KEY_TMDB_TITLE, best.match[1].title>>, <<KEY_TMDB_CONFIDENCE, Format2f(best.confidence)>>>>
RECURSIVE Absentees(_, _)
\* the pairs of new whose key old does not have, in order
Absentees(old, new) == IF new = <<>> THEN <<>> ELSE (IF DictHas(old, Head(new)[1]) THEN <<>> ELSE <<Head(new)>>) \o Absentees(old, Tail(new))
\* the mapping a merge must give: the existing keys in their order, with the new value where
\* there is one, then the keys that were not present
ClaimedMerge(old, new) == [n \in DOMAIN old |-> IF DictHas(new, old[n][1]) THEN <<old[n][1], DictGet(new, old[n][1])>> ELSE old[n]] \o Absentees(old, new)
PropertiesOf(ls) == [n \in DOMAIN parse_org_file(ls) |-> parse_org_file(ls)[n].properties]

\* C11: once a merge workflow has written the document back, the document holds the same
\* records as before and each record's properties are its old properties merged with the
\* new ones: existing keys in their old order (with the new value where there is one),
\* keys not present before after all of them
C11_MergeKeepsExistingKeys == MergeWritten => /\ Len(parse_org_file(disk.org)) = Len(parse_org_file(cur.before))
                                              /\ \A n \in DOMAIN parse_org_file(cur.before) : parse_org_file(disk.org)[n].properties = ClaimedMerge(parse_org_file(cur.before)[n].properties, NewPropsFor(parse_org_file(cur.before)[n]))

\* the second run of update_org_file has written the document back
SecondRunWritten == pc = "inject_written" /\ cur.run = 2

\* C12: a second run of update_org_file with the same knowledge leaves the document of
\* the first run as it is, and with it the properties of every record
C12_SecondRunChangesNothing == SecondRunWritten => disk.org = cur.first /\ PropertiesOf(disk.org) = PropertiesOf(cur.first)

\* the lines of an entry's block that a merge of new leaves as they are: the lines that
\* are no property, and the properties whose key is not among the new keys
UntouchedBlockLines(ls, entry, new) == {At(ls, k) : k \in {n \in (entry.properties_start + 1)..(entry.properties_end - 1) : kv_match(Strip(At(ls, n))) = <<>> \/ ~DictHas(new, kv_match(Strip(At(ls, n)))[1])}}
\* the entries of the document read whose block the run rewrote
RewrittenEntries == {n \in DOMAIN parse_org_file(cur.before) : NewPropsFor(parse_org_file(cur.before)[n]) # <<>> /\ parse_org_file(cur.before)[n].properties_start # NoneInt /\ parse_org_file(cur.before)[n].properties_end # NoneInt}

\* C13: once a merge workflow has written the document back, every line of a rewritten
\* block that is no property, or whose key is not among the new keys, is a line of the
\* written document, character for character
C13_UntouchedLinesAreKept == MergeWritten => \A n \in RewrittenEntries : UntouchedBlockLines(cur.before, parse_org_file(cur.before)[n], NewPropsFor(parse_org_file(cur.before)[n])) \subseteq Range(disk.org)

\* C15: at every point of a merge run the canonical path holds the complete document the
\* run started with or the complete document the run writes
C15_CanonicalPathIsWhole == disk.org = cur.before \/ (pc \in {"inject_opened", "inject_written", "suggested_opened", "suggested_done"} /\ disk.org = lines)

(***************************************************************************)
(* enrich_metadata: fetch_movie_details, format_property and the loop of   *)
(* enrich_org_file.  The detail data of a movie is a record of the JSON    *)
(* fields the code reads; a field the JSON lacks is None, or the default   *)
(* the code passes to get().                                               *)
(***************************************************************************)
\* str.upper, one character
UpperChar(c) == IF c \in Range(Lowers) THEN Uppers[CHOOSE k \in DOMAIN Lowers : Lowers[k] = c] ELSE c
\* str.upper
Upper(s) == [k \in DOMAIN s |-> UpperChar(s[k])]
RECURSIVE Join(_)
\* ', '.join(values)
Join(values) == IF values = <<>> THEN <<>> ELSE IF Len(values) = 1 THEN values[1] ELSE values[1] \o <<",", " ">> \o Join(Tail(values))
\* str(value) of a float with one decimal, given in tenths
FormatTenths(t) == FormatNat(t \div 10) \o <<".">> \o FormatNat(t % 10)
\* cast[:3], companies[:3]
FirstThree(l) == Take(l, IF Len(l) < 3 THEN Len(l) ELSE 3)
STR_Director == <<"D", "i", "r", "e", "c", "t", "o", "r">>
LINE_BACKFILLED_true == <<":", "B", "A", "C", "K", "F", "I", "L", "L", "E", "D", ":", " ", "t", "r", "u", "e", NL>>
PREFIX_BACKFILLED == <<":", "B", "A", "C", "K", "F", "I", "L", "L", "E", "D", ":">>
PREFIX_NEEDS_REVIEW == <<":", "N", "E", "E", "D", "S", "_", "R", "E", "V", "I", "E", "W", ":">>
PREFIX_TMDB_ID_KEY == <<":", "T", "M", "D", "B", "_", "I", "D", ":">>
\* the keys of property_order
META_KEYS == [year |-> <<"y", "e", "a", "r">>, runtime |-> <<"r", "u", "n", "t", "i", "m", "e">>, original_title |-> <<"o", "r", "i", "g", "i", "n", "a", "l", "_", "t", "i", "t", "l", "e">>, original_language |-> <<"o", "r", "i", "g", "i", "n", "a", "l", "_", "l", "a", "n", "g", "u", "a", "g", "e">>, director |-> <<"d", "i", "r", "e", "c", "t", "o", "r">>, actors |-> <<"a", "c", "t", "o", "r", "s">>, countries |-> <<"c", "o", "u", "n", "t", "r", "i", "e", "s">>, production_companies |-> <<"p", "r", "o", "d", "u", "c", "t", "i", "o", "n", "_", "c", "o", "m", "p", "a", "n", "i", "e", "s">>, genres |-> <<"g", "e", "n", "r", "e", "s">>, imdb_id |-> <<"i", "m", "d", "b", "_", "i", "d">>, tmdb_rating |-> <<"t", "m", "d", "b", "_", "r", "a", "t", "i", "n", "g">>, vote_count |-> <<"v", "o", "t", "e", "_", "c", "o", "u", "n", "t">>]

\* fetch_movie_details: None (<<>>) when the request raised RequestException, else <<metadata>>
fetch_movie_details(answer) == IF ~answer.ok THEN <<>> ELSE LET data == answer.data IN LET directors == SelectSeq(data.crew, LAMBDA person : person.job = STR_Director) IN <<[year |-> IF TruthyStr(data.release_date) THEN BeforeDash(data.release_date) ELSE NoneStr, runtime |-> data.runtime, original_title |-> data.original_title, original_language |-> Upper(data.original_language), director |-> IF directors # <<>> THEN directors[1].name ELSE NoneStr, top_actors |-> FirstThree(data.cast), countries |-> data.production_countries, production_companies |-> FirstThree(data.production_companies), genres |-> data.genres, imdb_id |-> data.imdb_id, tmdb_rating |-> data.vote_average, vote_count |-> data.vote_count]>>

\* format_property for a str, an int, a float and a list value: no line for None, '' and []
format_property(key, value_str) == <<<<":">> \o Upper(key) \o <<":", " ">> \o value_str \o <<NL>>>>
format_str(key, value) == IF value = NoneStr \/ value = <<>> THEN <<>> ELSE format_property(key, value)
format_int(key, value) == IF value = NoneInt THEN <<>> ELSE format_property(key, FormatNat(value))
format_float(key, value) == IF value = NoneInt THEN <<>> ELSE format_property(key, FormatTenths(value))
format_list(key, value) == IF value = <<>> THEN <<>> ELSE format_property(key, Join(value))
\* the lines written for property_order
metadata_lines(m) == format_str(META_KEYS.year, m.year) \o format_int(META_KEYS.runtime, m.runtime) \o format_str(META_KEYS.original_title, m.original_title) \o format_str(META_KEYS.original_language, m.original_language) \o format_str(META_KEYS.director, m.director) \o format_list(META_KEYS.actors, m.top_actors) \o format_list(META_KEYS.countries, m.countries) \o format_list(META_KEYS.production_companies, m.production_companies) \o format_list(META_KEYS.genres, m.genres) \o format_str(META_KEYS.imdb_id, m.imdb_id) \o format_float(META_KEYS.tmdb_rating, m.tmdb_rating) \o format_int(META_KEYS.vote_count, m.vote_count)

RECURSIVE DigitRun(_)
\* (\d+)
DigitRun(s) == IF s # <<>> /\ IsDigit(s[1]) THEN <<s[1]>> \o DigitRun(Tail(s)) ELSE <<>>
\* the TMDB_ID a stripped property line gives: re.search(r':TMDB_ID:\s*(\d+)', prop_line) on a line that
\* starts with ':TMDB_ID:' (a second ':TMDB_ID:' later in the same line is not looked for)
tmdb_id_of_line(stripped, before) == IF StartsWith(stripped, PREFIX_TMDB_ID_KEY) /\ DigitRun(LStrip(Drop(stripped, Len(PREFIX_TMDB_ID_KEY)))) # <<>> THEN ParseInt(DigitRun(LStrip(Drop(stripped, Len(PREFIX_TMDB_ID_KEY))))) ELSE before
RECURSIVE tmdb_id_of(_, _)
\* tmdb_id after the loop over the property lines: the last line that gives one
tmdb_id_of(props_lines, before) == IF props_lines = <<>> THEN before ELSE tmdb_id_of(Tail(props_lines), tmdb_id_of_line(Strip(Head(props_lines)), before))
\* 'true' in prop_line.lower()
ContainsTrue(s) == \E p \in 1..(Len(s) - 3) : SubSeq(Lower(s), p, p + 3) = STR_true
\* a gate that never finds the record flagged for review
needs_review_never(props_lines) == FALSE
\* needs_review after the loop
needs_review_of(props_lines) == \E n \in DOMAIN props_lines : StartsWith(Strip(props_lines[n]), PREFIX_NEEDS_REVIEW) /\ ContainsTrue(Strip(props_lines[n]))
\* already_enriched after the loop
already_enriched_of(props_lines) == \E n \in DOMAIN props_lines : StartsWith(Strip(props_lines[n]), PREFIX_BACKFILLED)
\* the reason a record with a block is not enriched, "" when it is to be fetched
meta_gate(props_lines) == IF ~TruthyInt(tmdb_id_of(props_lines, NoneInt)) THEN "no TMDB_ID" ELSE IF needs_review_of(props_lines) THEN "needs review" ELSE IF already_enriched_of(props_lines) THEN "already enriched" ELSE ""
\* the output of a record with a block whose heading is line k: heading, :PROPERTIES:, the
\* property lines, the new lines, :END: when there is one, the rest up to the next '*' line
meta_record(ls, k, new_lines) == LET e == NextEnd(ls, k + 2) IN LET after == IF e < Len(ls) THEN e + 1 ELSE e IN [out |-> <<At(ls, k), At(ls, k + 1)>> \o Slice(ls, k + 2, e) \o new_lines \o (IF e < Len(ls) THEN <<At(ls, e)>> ELSE <<>>) \o Slice(ls, after, NextStar(ls, after)), next |-> NextStar(ls, after)]

(***************************************************************************)
(* The run of enrich_org_file.  The lookup answers a detail request by     *)
(* api.details: the data of the movie, or a failure.  The backup of this   *)
(* workflow is the file .org.bak2.                                         *)
(***************************************************************************)
MetaPropsLines == Slice(lines, i + 2, NextEnd(lines, i + 2))
MetaHeading == i < Len(lines) /\ IsStarLine(Line)

\* the backup, made when .org.bak2 does not exist
MetaBackup == /\ pc = "meta_start"
              /\ disk' = IF disk.bak2 = Absent THEN [disk EXCEPT !.bak2 = disk.org] ELSE disk
              /\ pc' = "meta_read"
              /\ UNCHANGED <<fn, arg, ret, lines, output_lines, i, cur, api, log>>
\* lines = f.readlines(); output_lines = []; i = 0
MetaRead == /\ pc = "meta_read"
            /\ lines' = disk.org /\ output_lines' = <<>> /\ i' = 0
            /\ pc' = "meta_loop"
            /\ UNCHANGED <<fn, arg, ret, disk, cur, api, log>>
\* a line that is no heading is copied
MetaCopyLine == /\ pc = "meta_loop" /\ i < Len(lines) /\ ~IsStarLine(Line)
                /\ output_lines' = Append(output_lines, Line) /\ i' = i + 1
                /\ UNCHANGED <<fn, arg, ret, pc, disk, lines, cur, api, log>>
\* a heading without a block is copied
MetaNoBlock == /\ pc = "meta_loop" /\ MetaHeading /\ ~has_properties(lines, i)
               /\ output_lines' = Append(output_lines, Line) /\ i' = i + 1
               /\ UNCHANGED <<fn, arg, ret, pc, disk, lines, cur, api, log>>
\* a record without TMDB_ID, flagged for review or already enriched is copied
MetaSkip == /\ pc = "meta_loop" /\ MetaHeading /\ has_properties(lines, i) /\ meta_gate(MetaPropsLines) # ""
            /\ LET rec == meta_record(lines, i, <<>>) IN
                  /\ output_lines' = output_lines \o rec.out
                  /\ i' = rec.next
                  /\ log' = Append(log, [ev |-> "skip", reason |-> meta_gate(MetaPropsLines), at |-> i, out_at |-> Len(output_lines), out_len |-> Len(rec.out), next |-> rec.next])
            /\ UNCHANGED <<fn, arg, ret, pc, disk, lines, cur, api>>
\* metadata = fetch_movie_details(tmdb_id, api_key)
MetaFetch == /\ pc = "meta_loop" /\ MetaHeading /\ has_properties(lines, i) /\ meta_gate(MetaPropsLines) = ""
             /\ cur' = [kind |-> "meta", at |-> i, tmdb_id |-> tmdb_id_of(MetaPropsLines, NoneInt), metadata |-> fetch_movie_details(api.details)]
             /\ log' = Append(log, [ev |-> "fetch", at |-> i, tmdb_id |-> tmdb_id_of(MetaPropsLines, NoneInt), ok |-> api.details.ok])
             /\ pc' = "meta_fetched"
             /\ UNCHANGED <<fn, arg, ret, disk, lines, output_lines, i, api>>
\* the fetch failed: the record is copied, nothing is written and the loop continues
MetaError == /\ pc = "meta_fetched" /\ cur.metadata = <<>>
             /\ LET rec == meta_record(lines, i, <<>>) IN
                   /\ output_lines' = output_lines \o rec.out
                   /\ i' = rec.next
                   /\ log' = Append(log, [ev |-> "error", at |-> i, out_at |-> Len(output_lines), out_len |-> Len(rec.out), next |-> rec.next])
             /\ cur' = NoRecord
             /\ pc' = "meta_loop"
             /\ UNCHANGED <<fn, arg, ret, disk, lines, api>>
\* the record is written with the metadata lines and :BACKFILLED: true before its :END:
MetaEnrich == /\ pc = "meta_fetched" /\ cur.metadata # <<>>
              /\ LET rec == meta_record(lines, i, metadata_lines(cur.metadata[1]) \o <<LINE_BACKFILLED_true>>) IN
                    /\ output_lines' = output_lines \o rec.out
                    /\ i' = rec.next
                    /\ log' = Append(log, [ev |-> "result", at |-> i, out_at |-> Len(output_lines), out_len |-> Len(rec.out), next |-> rec.next])
              /\ pc' = "meta_write_tmp"
              /\ UNCHANGED <<fn, arg, ret, disk, lines, cur, api>>
\* the loop has ended: the final write happens when there is any output
MetaEndLoop == /\ pc = "meta_loop" /\ i >= Len(lines)
               /\ pc' = IF output_lines # <<>> THEN "meta_final_tmp" ELSE "meta_done"
               /\ UNCHANGED <<fn, arg, ret, disk, lines, output_lines, i, cur, api, log>>
\* write_lines_to_file: the temporary file is written
MetaWriteTmp == /\ pc \in {"meta_write_tmp", "meta_final_tmp"}
                /\ disk' = [disk EXCEPT !.tmp = output_lines \o Slice(lines, i, Len(lines))]
                /\ pc' = IF pc = "meta_write_tmp" THEN "meta_rename" ELSE "meta_final_rename"
                /\ UNCHANGED <<fn, arg, ret, lines, output_lines, i, cur, api, log>>
\* write_lines_to_file: temp_path.replace(org_path)
MetaRename == /\ pc \in {"meta_rename", "meta_final_rename"}
              /\ disk' = [disk EXCEPT !.org = disk.tmp, !.tmp = Absent]
              /\ log' = Append(log, [ev |-> "write"])
              /\ pc' = IF pc = "meta_rename" THEN "meta_sleep" ELSE "meta_done"
              /\ UNCHANGED <<fn, arg, ret, lines, output_lines, i, cur, api>>
\* time.sleep(0.25), then the loop continues
MetaSleep == /\ pc = "meta_sleep"
             /\ log' = Append(log, [ev |-> "sleep"])
             /\ cur' = NoRecord
             /\ pc' = "meta_loop"
             /\ UNCHANGED <<fn, arg, ret, disk, lines, output_lines, i, api>>
NextMeta == MetaBackup \/ MetaRead \/ MetaCopyLine \/ MetaNoBlock \/ MetaSkip \/ MetaFetch \/ MetaError \/ MetaEnrich \/ MetaEndLoop \/ MetaWriteTmp \/ MetaRename \/ MetaSleep

(***************************************************************************)
(* SpecBoth: one run of process_org_file or of enrich_org_file over a      *)
(* document of at most MaxRecords records.  SpecRuns: up to MaxRuns runs   *)
(* of one of the two workflows on the same document, each run completed or *)
(* interrupted between two steps, over documents of at most MaxRunRecords  *)
(* records; arg is the document before the first run, ret.run the number   *)
(* of the run.                                                             *)
(***************************************************************************)
P_ID_ZERO == <<":", "T", "M", "D", "B", "_", "I", "D", ":", " ", "0", NL>>
P_ID_INDENTED == <<" ", " ", ":", "T", "M", "D", "B", "_", "I", "D", ":", "9", "4", "9", NL>>
MetaShapes == {<<L_PRE>>, <<H_HEAT>>, <<H_HEAT>> \o Block(<<P_ID>>) \o <<L_BODY>>, <<H_HEAT>> \o Block(<<P_ID, P_NRT>>), <<H_HEAT_YEAR>> \o Block(<<P_ID, LINE_BACKFILLED_true>>) \o <<L_SUB>>, <<H_HEAT>> \o Block(<<P_SUGG>>), <<H_HEAT>> \o Block(<<P_ID_ZERO>>), <<H_HEAT>> \o Block(<<P_NRF, P_ID_INDENTED>>) \o <<L_SUB, L_BODY>>, <<H_HEAT_YEAR, LINE_PROPERTIES, P_ID>>, <<H_HEAT>> \o Block(<<D_YEAR_1999, P_ID>>)}
MetaDocuments(max) == UNION {{Concat(rs) : rs \in [1..n -> MetaShapes]} : n \in 0..max}
S_en == <<"e", "n">>
S_US == <<"U", "S">>
S_Mann == <<"M", "a", "n", "n">>
S_Pacino == <<"P", "a", "c", "i", "n", "o">>
S_De_Niro == <<"D", "e", " ", "N", "i", "r", "o">>
S_Producer == <<"P", "r", "o", "d", "u", "c", "e", "r">>
HeatData == [release_date |-> ReleaseDate(1995), runtime |-> 170, original_title |-> T_HEAT, original_language |-> S_en, crew |-> <<[name |-> S_Pacino, job |-> S_Producer], [name |-> S_Mann, job |-> STR_Director]>>, cast |-> <<S_Pacino, S_De_Niro, S_Mann, S_Pacino>>, production_countries |-> <<S_US>>, production_companies |-> <<>>, genres |-> <<>>, imdb_id |-> NoneStr, vote_average |-> 79, vote_count |-> 0]
BareData == [release_date |-> NoneStr, runtime |-> NoneInt, original_title |-> NoneStr, original_language |-> <<>>, crew |-> <<>>, cast |-> <<>>, production_countries |-> <<>>, production_companies |-> <<>>, genres |-> <<>>, imdb_id |-> NoneStr, vote_average |-> NoneInt, vote_count |-> NoneInt]
MetaApis == {[details |-> [ok |-> FALSE, data |-> BareData]], [details |-> [ok |-> TRUE, data |-> HeatData]], [details |-> [ok |-> TRUE, data |-> BareData]]}

InitWorkflow(max) == /\ arg = <<>>
                     /\ \/ fn = "process_org_file" /\ pc = "start" /\ api \in Apis /\ disk \in {[org |-> d, tmp |-> Absent, bak |-> Absent, bak2 |-> Absent] : d \in Documents(max)}
                        \/ fn = "enrich_org_file" /\ pc = "meta_start" /\ api \in MetaApis /\ disk \in {[org |-> d, tmp |-> Absent, bak |-> Absent, bak2 |-> Absent] : d \in MetaDocuments(max)}
                     /\ lines = <<>> /\ output_lines = <<>> /\ i = 0 /\ cur = NoRecord
                     /\ log = <<>>
InitBoth == ret = NotCalled /\ InitWorkflow(MaxRecords)
NextBoth == Next \/ NextMeta
SpecBoth == InitBoth /\ [][NextBoth]_vars

(***************************************************************************)
(* Properties of a run of process_org_file or enrich_org_file.  A record   *)
(* is the range of lines the run handled as one: log[n].at up to           *)
(* log[n].next for a skip, error or result event.                          *)
(***************************************************************************)
RunEnded == pc \in {"done", "meta_done"}
\* the result event is a match of process_org_file
IsMatch(e) == fn = "process_org_file" /\ TruthyInt(e.match.tmdb_id)
\* line k of the input is a SUGGESTED_SEARCH line of a record matched in this run
Consumed(k) == IsSuggestedLine(At(lines, k)) /\ \E n \in Events("result") : IsMatch(log[n]) /\ log[n].at <= k /\ k < log[n].next
RECURSIVE KeptFrom(_)
\* the input lines from index k on, without the consumed ones
KeptFrom(k) == IF k >= Len(lines) THEN <<>> ELSE (IF Consumed(k) THEN <<>> ELSE <<At(lines, k)>>) \o KeptFrom(k + 1)
RECURSIVE IsSubsequence(_, _)
\* a is b with some lines left out
IsSubsequence(a, b) == IF a = <<>> THEN TRUE ELSE IF b = <<>> THEN FALSE ELSE IF Head(a) = Head(b) THEN IsSubsequence(Tail(a), Tail(b)) ELSE IsSubsequence(a, Tail(b))
WithoutSuggested(ls) == SelectSeq(ls, LAMBDA l : ~IsSuggestedLine(l))
HasBlock(inp) == Len(inp) >= 2 /\ Strip(inp[2]) = PROPERTIES_MARK
\* out is inp (without its SUGGESTED_SEARCH lines when the record was matched) with the lines
\* a + 1 .. b inserted
IsInsertion(inp, out, a, b, matched) == Take(out, a) \o Drop(out, b) \in {inp} \cup (IF matched THEN {WithoutSuggested(inp)} ELSE {})
\* the inserted lines a + 1 .. b stand immediately before the :END: of the record's block
BeforeEnd(inp, out, a, b) == HasBlock(inp) /\ a >= 2 /\ b < Len(out) /\ Strip(out[b + 1]) = END_MARK /\ \A k \in 3..a : Strip(out[k]) # END_MARK
\* the inserted lines a + 1 .. b are a new block directly under a heading that had none
NewBlock(inp, out, a, b) == ~HasBlock(inp) /\ a = 1 /\ b >= 3 /\ out[2] = LINE_PROPERTIES /\ out[b] = LINE_END
\* the lines of the document that the run leaves: every input line but the consumed ones, in order
InputIsKept == IsSubsequence(KeptFrom(0), disk.org)
RECURSIVE Growth(_)
\* the number of lines the result events up to n added to their records
Growth(n) == IF n = 0 THEN 0 ELSE Growth(n - 1) + (IF log[n].ev = "result" THEN log[n].out_len - Len(IF IsMatch(log[n]) THEN WithoutSuggested(InOf(log[n])) ELSE InOf(log[n])) ELSE 0)
\* no line is inserted outside the processed records, whose output is the document on disk
NothingElseInserted == Len(disk.org) = Len(KeptFrom(0)) + Growth(Len(log)) /\ (Events("result") # {} => disk.org = output_lines)

\* C14: at the end of a run the document holds every input line in order, but
\* the SUGGESTED_SEARCH lines of matched records, and every inserted line lies in a
\* processed record, immediately before the :END: of its block or in a new block under a
\* heading that had none
C14_OnlyInsertsBeforeEnd == RunEnded => /\ InputIsKept /\ NothingElseInserted
                                        /\ \A n \in Events("result") : \E a \in 0..log[n].out_len : \E b \in a..log[n].out_len : IsInsertion(InOf(log[n]), OutOf(log[n]), a, b, IsMatch(log[n])) /\ (BeforeEnd(InOf(log[n]), OutOf(log[n]), a, b) \/ NewBlock(InOf(log[n]), OutOf(log[n]), a, b))

(***************************************************************************)
(* The checkpoints of process_org_file and enrich_org_file: the document   *)
(* on disk while a run is under way.                                       *)
(***************************************************************************)
\* the run has read the document
HasRead == pc \notin {"start", "read", "meta_start", "meta_read"}
\* a changed record is in output_lines and its write has not replaced the document yet
WritePending == pc \in {"write_tmp", "rename", "meta_write_tmp", "meta_rename"}
\* the record in progress: the last one whose output was produced
LastResult == log[CHOOSE n \in Events("result") : \A k \in Events("result") : k <= n]
\* the output produced so far followed by the input lines not yet processed
OutputThenRest == output_lines \o Slice(lines, i, Len(lines))
\* the same, one record earlier: without the output of the record in progress
OutputThenRestBefore(e) == Take(output_lines, e.out_at) \o Slice(lines, e.at, Len(lines))
\* the records whose changed output the document on disk does not hold
Unsaved == {n \in Events("result") : OutOf(log[n]) # InOf(log[n]) /\ ~(Len(disk.org) >= log[n].out_at + log[n].out_len /\ Slice(disk.org, log[n].out_at, log[n].out_at + log[n].out_len) = OutOf(log[n]))}

\* C17: once the document is read, the document on disk is the output produced so far
\* followed by the input lines not yet processed, verbatim; while the write of a record
\* is under way it is that without the record in progress, so that at most one record's
\* result is not on disk and no line of an unprocessed record is missing or altered
C17_DiskIsOutputThenRest == HasRead => /\ disk.org = (IF WritePending THEN OutputThenRestBefore(LastResult) ELSE OutputThenRest)
                                       /\ Cardinality(Unsaved) <= (IF WritePending THEN 1 ELSE 0)
                                       /\ Slice(disk.org, Len(disk.org) - (Len(lines) - i), Len(disk.org)) = Slice(lines, i, Len(lines))
\* a record was looked up and changed, its write is done, and records remain unprocessed
C17_Witness == /\ pc \in {"sleep", "meta_sleep"} /\ i < Len(lines)
               /\ OutOf(LastResult) # InOf(LastResult)
               /\ disk.org = OutputThenRest /\ disk.org # lines

(***************************************************************************)
(* The delay between the calls of the lookup service.                      *)
(***************************************************************************)
\* the calls of the lookup service: searches and detail fetches
ExternalCalls == Events("search") \cup Events("fetch")

\* C18: between any two calls of the lookup service the run has slept, whether the
\* first of them returned results, returned nothing or failed
C18_DelayAfterEveryCall == \A a \in ExternalCalls : \A b \in ExternalCalls : a < b => \E s \in Events("sleep") : a < s /\ s < b

(***************************************************************************)
(* The gates of enrich_org_file, read from the lines of the record whose   *)
(* heading is line k.                                                      *)
(***************************************************************************)
KeyBackfilled == SubSeq(PREFIX_BACKFILLED, 2, Len(PREFIX_BACKFILLED) - 1)
\* the values the block gives to a key
ValuesOfKey(k, key) == {prop_match(Strip(BlockLines(k)[n]))[2] : n \in BlockValues(k, key)}
\* the record has a numeric TMDB_ID
HasNumericTmdbId(k) == \E v \in ValuesOfKey(k, KEY_TMDB_ID) : v # <<>> /\ \A p \in DOMAIN v : IsDigit(v[p])
\* the record is flagged for review
HasReviewFlag(k) == \E v \in ValuesOfKey(k, KEY_NEEDS_REVIEW) : Lower(Strip(v)) = STR_true
\* the record has a BACKFILLED property
HasBackfilled(k) == BlockValues(k, KeyBackfilled) # {}
\* the record may be enriched
Enrichable(k) == HasNumericTmdbId(k) /\ ~HasReviewFlag(k) /\ ~HasBackfilled(k)
\* the detail fetches issued for the record whose heading is line k
FetchesOf(k) == {n \in Events("fetch") : log[n].at = k}
\* the records of the run and the event that ended each of them
MetaRecords == Events("skip") \cup Events("error") \cup Events("result")

MaxRuns == 2
MaxRunRecords == 1
InitRuns == /\ ret = NotCalled
            /\ \/ fn = "process_org_file" /\ pc = "start" /\ api \in Apis /\ disk \in {[org |-> d, tmp |-> Absent, bak |-> Absent, bak2 |-> Absent] : d \in Documents(MaxRunRecords)}
               \/ fn = "enrich_org_file" /\ pc = "meta_start" /\ api \in MetaApis /\ disk \in {[org |-> d, tmp |-> Absent, bak |-> Absent, bak2 |-> Absent] : d \in MetaDocuments(MaxRunRecords)}
            /\ arg = [first |-> disk.org, run |-> 1]
            /\ lines = <<>> /\ output_lines = <<>> /\ i = 0 /\ cur = NoRecord
            /\ log = <<>>
\* the script is run again; the lookup service may answer differently this time
RunAgain == /\ pc = "done" /\ arg.run < MaxRuns
            /\ arg' = [arg EXCEPT !.run = arg.run + 1]
            /\ api' \in Apis
            /\ pc' = "start"
            /\ lines' = <<>> /\ output_lines' = <<>> /\ i' = 0 /\ cur' = NoRecord /\ log' = <<>>
            /\ UNCHANGED <<fn, ret, disk>>
MetaRunAgain == /\ pc = "meta_done" /\ arg.run < MaxRuns
                /\ arg' = [arg EXCEPT !.run = arg.run + 1]
                /\ api' \in MetaApis
                /\ pc' = "meta_start"
                /\ lines' = <<>> /\ output_lines' = <<>> /\ i' = 0 /\ cur' = NoRecord /\ log' = <<>>
                /\ UNCHANGED <<fn, ret, disk>>
NextRuns == Next \/ NextMeta \/ RunAgain \/ MetaRunAgain
SpecRuns == InitRuns /\ [][NextRuns]_vars

\* the backup of the workflow that runs
BackupFile == IF fn = "process_org_file" THEN disk.bak ELSE disk.bak2

\* C16: over the runs of one workflow the backup is absent only before the first run
\* has written anything, while the document is still what it was at the start, and from
\* its creation on, in every run, it holds the document as it was at the start of the
\* first run
C16_BackupIsTheFirstDocument == /\ BackupFile = Absent => arg.run = 1 /\ pc \in {"start", "meta_start"} /\ disk.org = arg.first
                                /\ BackupFile # Absent => BackupFile = arg.first
\* a later run has passed the backup step after the first run changed the document
C16_Witness == /\ arg.run > 1 /\ pc \in {"read", "meta_read"}
               /\ disk.org # arg.first /\ BackupFile = arg.first

(***************************************************************************)
(* The keys of a block before and after enrich_org_file enriched it.       *)
(***************************************************************************)
\* the keys of the property lines among ls, in order
KeysOf(ls) == [n \in DOMAIN ls |-> KeyOfLine(ls[n])]
\* no key occurs twice among the lines ls
KeysAreUnique(ls) == \A a \in DOMAIN ls : \A b \in DOMAIN ls : a < b /\ KeysOf(ls)[a] # NoneStr => KeysOf(ls)[a] # KeysOf(ls)[b]
\* the lines between :PROPERTIES: and :END: of a record given by its lines
BlockOf(rec) == Slice(rec, 2, NextEnd(rec, 2))

\* C21: a record that enrich_org_file enriched and whose block had each key at most
\* once still has each key at most once
C21_KeysStayUnique == fn = "enrich_org_file" => \A n \in Events("result") : KeysAreUnique(BlockOf(InOf(log[n]))) => KeysAreUnique(BlockOf(OutOf(log[n])))

\* the records of the document of the run for whose title the knowledge has properties
KnownEntries == {n \in DOMAIN parse_org_file(cur.before) : DictHas(arg, parse_org_file(cur.before)[n].title) /\ new_props_of(DictGet(arg, parse_org_file(cur.before)[n].title)) # <<>>}
\* the merge step of update_org_file is over
MergeIsOver == pc \in {"inject_merged", "inject_crashed", "inject_opened", "inject_written"}

\* C22: a run of update_org_file whose knowledge names a record that has no block, or a
\* block without :END:, does not raise: the merge step ends with the lines to write, in
\* which the other records are updated
C22_RecordWithoutBlockIsValid == MergeIsOver /\ (\E n \in KnownEntries : parse_org_file(cur.before)[n].properties_end = NoneInt) => pc # "inject_crashed"

(***************************************************************************)
(* update_org_entries: the records it looks up and what it writes.         *)
(***************************************************************************)
\* the records of the document the run started on, and of the document on disk
EntriesBefore == parse_org_file(cur.input)
EntriesAfter == parse_org_file(disk.org)
\* the run of update_org_entries has ended and has written the document
SuggestedWritten == pc = "suggested_done" /\ cur.updates > 0

\* C23: update_org_entries makes no lookup for a record whose block has a TMDB_ID,
\* whatever its NEEDS_REVIEW value, and the record has the same TMDB_ID after the run
C23_TmdbIdExemptsFromLookup ==
    /\ pc = "suggested_loop" => \A n \in DOMAIN cur.to_process : ~DictHas(cur.to_process[n].properties, KEY_TMDB_ID)
    /\ pc = "suggested_done" => \A n \in DOMAIN EntriesBefore : DictHas(EntriesBefore[n].properties, KEY_TMDB_ID) =>
           n \in DOMAIN EntriesAfter /\ DictHas(EntriesAfter[n].properties, KEY_TMDB_ID) /\ DictGet(EntriesAfter[n].properties, KEY_TMDB_ID) = DictGet(EntriesBefore[n].properties, KEY_TMDB_ID)

\* C24: when no record had a TMDB_CONFIDENCE before the run, a record that has one in the
\* written document was matched in this run, by the query of its SUGGESTED_SEARCH, and
\* its block has no SUGGESTED_SEARCH property any more
C24_SuggestedSearchIsRemoved == SuggestedWritten /\ (\A n \in DOMAIN EntriesBefore : ~DictHas(EntriesBefore[n].properties, KEY_TMDB_CONFIDENCE)) =>
    \A n \in DOMAIN EntriesAfter : DictHas(EntriesAfter[n].properties, KEY_TMDB_CONFIDENCE) => ~DictHas(EntriesAfter[n].properties, KEY_SUGGESTED_SEARCH)

(***************************************************************************)
(* SpecResume: process_org_file is run again on the document an earlier    *)
(* run left, against the same lookup service.  The earlier run was either  *)
(* interrupted right after an incremental write or ran to its end.  arg    *)
(* holds the document at the start of the first run, the number of the run *)
(* under way, the document the earlier run left and whether that run ran   *)
(* to its end.                                                             *)
(***************************************************************************)
InitResume == /\ ret = NotCalled
              /\ fn = "process_org_file" /\ pc = "start" /\ api \in Apis
              /\ disk \in {[org |-> d, tmp |-> Absent, bak |-> Absent, bak2 |-> Absent] : d \in Documents(MaxRunRecords)}
              /\ arg = [first |-> disk.org, run |-> 1, left |-> Absent, complete |-> FALSE]
              /\ lines = <<>> /\ output_lines = <<>> /\ i = 0 /\ cur = NoRecord
              /\ log = <<>>
\* the run is killed during the delay that follows an incremental write, and run again
InterruptAndRerun == /\ pc = "sleep" /\ arg.run < MaxRuns
                     /\ arg' = [arg EXCEPT !.run = arg.run + 1, !.left = disk.org, !.complete = FALSE]
                     /\ pc' = "start"
                     /\ lines' = <<>> /\ output_lines' = <<>> /\ i' = 0 /\ cur' = NoRecord /\ log' = <<>>
                     /\ UNCHANGED <<fn, ret, disk, api>>
\* the run has ended and the script is run again
Rerun == /\ pc = "done" /\ arg.run < MaxRuns
         /\ arg' = [arg EXCEPT !.run = arg.run + 1, !.left = disk.org, !.complete = TRUE]
         /\ pc' = "start"
         /\ lines' = <<>> /\ output_lines' = <<>> /\ i' = 0 /\ cur' = NoRecord /\ log' = <<>>
         /\ UNCHANGED <<fn, ret, disk, api>>
NextResume == Next \/ InterruptAndRerun \/ Rerun
SpecResume == InitResume /\ [][NextResume]_vars

\* C25: a run of process_org_file on the document that a completed run left, against
\* the same lookup service, ends with that document unchanged
C25_RerunChangesNothing == pc = "done" /\ arg.run > 1 /\ arg.complete => disk.org = arg.left

(***************************************************************************)
(* The records around the blocks that update_org_file and                  *)
(* update_org_entries rewrite.                                             *)
(***************************************************************************)
\* the records of the document the run under way started on
EntriesAtStart == parse_org_file(cur.before)
\* a record without block, or with one closed block right under its heading
IsWellFormed(e) == \/ e.properties_start = NoneInt /\ e.properties_end = NoneInt
                   \/ e.properties_start = e.start_line + 1 /\ e.properties_start < e.properties_end
\* the lines of record e of the document ls after its block
BodyOf(ls, e) == Slice(ls, (IF e.properties_end = NoneInt THEN e.start_line ELSE e.properties_end) + 1, e.end_line)
\* a run has ended and the document on disk is the one it produced
RunWritten == pc \in {"inject_written", "suggested_done"}

\* C26: after a run on a document whose records are well formed, the document has the
\* same records with the same headings, and the lines after the block of every record
\* are what they were: every rewritten block took the place of its own lines only
C26_LineIndicesStayValid == RunWritten /\ (\A n \in DOMAIN EntriesAtStart : IsWellFormed(EntriesAtStart[n])) =>
    /\ Len(EntriesAfter) = Len(EntriesAtStart)
    /\ \A n \in DOMAIN EntriesAtStart : n \in DOMAIN EntriesAfter =>
          /\ EntriesAfter[n].title = EntriesAtStart[n].title
          /\ BodyOf(disk.org, EntriesAfter[n]) = BodyOf(cur.before, EntriesAtStart[n])

\* the first :PROPERTIES: line of record e of the document ls, or its end_line
FirstPropertiesOf(ls, e) == LET ps == {k \in (e.start_line + 1)..(e.end_line - 1) : Strip(At(ls, k)) = PROPERTIES_MARK} IN IF ps = {} THEN e.end_line ELSE CHOOSE k \in ps : \A m \in ps : k <= m
\* the first :END: line that follows it
FirstEndOf(ls, e) == NextEnd(ls, FirstPropertiesOf(ls, e) + 1)
\* every drawer of record e of the document ls is closed by an :END: line of its own
DrawersAreClosed(ls, e) == \A k \in (e.start_line + 1)..(e.end_line - 1) : Strip(At(ls, k)) = PROPERTIES_MARK => NextEnd(ls, k + 1) < e.end_line /\ \A m \in (k + 1)..NextEnd(ls, k + 1) : Strip(At(ls, m)) # PROPERTIES_MARK
\* the only record whose block the run rewrote
TheRewritten == EntriesAtStart[CHOOSE n \in RewrittenEntries : TRUE]

\* C27: when a run rewrote the block of one record, all of whose drawers are closed, the
\* written document is the document read with other lines from the record's first
\* :PROPERTIES: line through the first :END: line that follows it: the lines before and
\* the lines after are unchanged
C27_BlockEndsAtFirstEnd == MergeWritten /\ Cardinality(RewrittenEntries) = 1 /\ DrawersAreClosed(cur.before, TheRewritten) =>
    LET p == FirstPropertiesOf(cur.before, TheRewritten)  rest == Len(cur.before) - FirstEndOf(cur.before, TheRewritten) - 1 IN
        /\ Len(disk.org) >= p + rest
        /\ Take(disk.org, p) = Take(cur.before, p)
        /\ Slice(disk.org, Len(disk.org) - rest, Len(disk.org)) = Slice(cur.before, Len(cur.before) - rest, Len(cur.before))

(***************************************************************************)
(* SpecConfidence: the scoring of update_org_entries and find_best_match   *)
(* applied to the same query, year hint and candidates.                    *)
(***************************************************************************)
MaxCandidates == 2
DerHutResult == [id |-> 8, title |-> T_DER_HUT, original_title |-> T_HEAT, release_date |-> ReleaseDate(1996)]
ConfidenceQueries == {T_HEAT, T_HAT, Q_HEAT_1995}
ConfidenceInputs(max) == {[query |-> q, year_hint |-> y, results |-> rs] : q \in ConfidenceQueries, y \in {NoneInt, 1995}, rs \in UNION {[1..n -> {HeatResult, HatResult, DerHutResult}] : n \in 0..max}}
InitConfidence == fn = "calculate_confidence" /\ arg \in ConfidenceInputs(MaxCandidates) /\ ret = NotCalled /\ RunIdle
\* the loop over results[:5] of update_org_entries, and find_best_match, on the same input
CallConfidence == /\ fn = "calculate_confidence" /\ ~ret.done
                  /\ ret' = [done |-> TRUE, best |-> best_match_of(arg.results, arg.query, arg.year_hint), match |-> match_of(arg.results, scored_by_titles(arg.query, arg.year_hint, arg.results))]
                  /\ UNCHANGED <<fn, arg>> /\ RunUnchanged
SpecConfidence == InitConfidence /\ [][CallConfidence]_vars

\* C28: for the same query, year hint and candidates update_org_entries selects a
\* candidate exactly when find_best_match does, the same one, with the same confidence
C28_SameCandidateSameConfidence == ret.done =>
    /\ (ret.best.match = <<>>) = (ret.match.tmdb_id = NoneInt)
    /\ ret.best.match # <<>> => ret.best.match[1].id = ret.match.tmdb_id /\ Round2(ret.best.confidence).hund = ret.match.confidence.hund

(***************************************************************************)
(* SpecDryRun: update_org_entries with dry_run set.                        *)
(***************************************************************************)
RECURSIVE suggested_loop(_, _)
\* the loop of update_org_entries without dry_run, up to a crash
suggested_loop(st, entries) == IF entries = <<>> \/ st.crashed THEN st ELSE suggested_loop(suggested_entry(st, Head(entries), search_tmdb(AnswerFor(year_hint_of(Head(entries).properties)))), Tail(entries))
\* update_org_entries: parse_org_file and the filter
DryParse == /\ pc = "dry_start"
            /\ lines' = disk.org
            /\ cur' = [cur EXCEPT !.to_process = to_process_of(parse_org_file(disk.org))]
            /\ pc' = "dry_loop"
            /\ UNCHANGED <<fn, arg, ret, disk, output_lines, i, api, log>>
\* one pass of the loop with dry_run: the search, the delay and the best match, which
\* is printed; neither props nor lines nor updates change
DryEntry == /\ pc = "dry_loop" /\ cur.to_process # <<>>
            /\ cur' = [cur EXCEPT !.to_process = Tail(cur.to_process)]
            /\ log' = log \o <<<<"search", DictGet(Head(cur.to_process).properties, KEY_SUGGESTED_SEARCH), year_hint_of(Head(cur.to_process).properties)>>, <<"sleep">>>>
            /\ UNCHANGED <<fn, arg, ret, pc, disk, lines, output_lines, i, api>>
\* "Dry run complete - would have updated {updates} entries"; return updates
DryEnd == /\ pc = "dry_loop" /\ cur.to_process = <<>>
          /\ ret' = [done |-> TRUE, updates |-> cur.updates]
          /\ pc' = "dry_done"
          /\ UNCHANGED <<fn, arg, disk, lines, output_lines, i, cur, api, log>>
InitDryRun == /\ fn = "update_org_entries" /\ ret = NotCalled /\ arg = <<>>
              /\ disk \in {[org |-> d, tmp |-> Absent, bak |-> Absent] : d \in MergeDocuments(MaxMerge)}
              /\ pc = "dry_start" /\ api \in Apis
              /\ lines = <<>> /\ output_lines = <<>> /\ i = 0
              /\ cur = MergeRun(1, disk.org, disk.org, Absent, <<>>, 0)
              /\ log = <<>>
NextDryRun == DryParse \/ DryEntry \/ DryEnd
SpecDryRun == InitDryRun /\ [][NextDryRun]_vars

\* what the run without dry_run does on the same document with the same answers
WithoutDryRun == suggested_loop([lines |-> cur.before, updates |-> 0, crashed |-> FALSE], to_process_of(parse_org_file(cur.before)))

\* C29: a run with dry_run never writes the document, and when the run without dry_run
\* ends, the count the dry run reports is the number of records that run updates
C29_DryRunCountsTheUpdates == /\ disk.org = cur.before
                              /\ pc = "dry_done" /\ ~WithoutDryRun.crashed => ret.updates = WithoutDryRun.updates

(***************************************************************************)
(* SpecEdit: process_org_file runs while a reviewer edits the document.    *)
(* The reviewer saves one note at the end of the last record, once, after  *)
(* the run has read the document and before it reaches that record.  arg   *)
(* holds whether the note was saved and how many writes the run had made   *)
(* by then.                                                                *)
(***************************************************************************)
L_REVIEWED == <<"S", "e", "e", "n", NL>>
LastHeading == CHOOSE k \in MovieHeadings : \A m \in MovieHeadings : m <= k
\* the loop has not reached the record whose heading is line k
NotYetProcessed(k) == k > i \/ (k = i /\ pc = "loop")
WritesMade == Cardinality(Events("write"))
InitEdit == /\ fn = "process_org_file" /\ ret = NotCalled
            /\ arg = [edited |-> FALSE, writes |-> 0]
            /\ pc = "start" /\ api \in Apis
            /\ disk \in {[org |-> d, tmp |-> Absent, bak |-> Absent] : d \in Documents(MaxRunRecords)}
            /\ lines = <<>> /\ output_lines = <<>> /\ i = 0 /\ cur = NoRecord
            /\ log = <<>>
\* another writer saves the document with a note added to the last record
ReviewerEdits == /\ HasRead /\ pc # "done" /\ ~arg.edited
                 /\ MovieHeadings # {} /\ NotYetProcessed(LastHeading)
                 /\ disk' = [disk EXCEPT !.org = Append(disk.org, L_REVIEWED)]
                 /\ arg' = [edited |-> TRUE, writes |-> WritesMade]
                 /\ UNCHANGED <<fn, ret, pc, lines, output_lines, i, cur, api, log>>
NextEdit == Next \/ ReviewerEdits
SpecEdit == InitEdit /\ [][NextEdit]_vars

NoteIsPresent == \E k \in DOMAIN disk.org : disk.org[k] = L_REVIEWED
\* C30: a note that the reviewer saved in a record the run had not reached is in the
\* document after the run's next write and in the final document
C30_ReviewerEditSurvives == arg.edited /\ (WritesMade > arg.writes \/ pc = "done") => NoteIsPresent

====
